---- MODULE Spec2Model ----
(***************************************************************************)
(* Verification model of sankey-hand-layout (cbm-sankey-2): the graph      *)
(* model, the layout codec, the link offset allocator, the interaction     *)
(* handlers wired by createSankey, and the Animator.                       *)
(*                                                                         *)
(* Numbers are integers.  A JavaScript `undefined` number is the value     *)
(* Undefined, which lies outside every value domain used below.            *)
(***************************************************************************)
EXTENDS Integers, Sequences, FiniteSets, TLC

(***************************************************************************)
(* Bounds of the model                                                     *)
(***************************************************************************)
MaxNodes == 2
MaxLinks == 2
MaxCoord == 1
MaxOrder == 1
MaxValue == 2
MaxPointer == 1
MaxSteps == 4
MaxAnims == 2
MaxTime == 3
MaxDuration == 2
FarPointer == 20

Undefined == -1

\* DEFAULT_OPTIONS
DefaultNodeLength == 20
DefaultMinNodeThickness == 4
DefaultMinNodeLength == 10

NodeIds == {"a", "b"}
UnknownId == "z"
LinkIds == {"l1", "l2"}
Orientations == {0, 90, 180, 270}
OrderKeys == {Undefined, 0, 1}

\* { ...DEFAULT_OPTIONS, ...config.options }
DefaultOptions ==
  [valueScale |-> 1, nodeLength |-> DefaultNodeLength,
   minNodeThickness |-> DefaultMinNodeThickness,
   minNodeLength |-> DefaultMinNodeLength]

VARIABLES
  inNodes,        \* argument `nodes` of the pure function under check
  inLinks,        \* argument `links` of the pure function under check
  inOptions,      \* argument `options` of the pure function under check
  res,            \* what the last call returned / what the last operation did
  graph,          \* createSankey: `graph`
  options,        \* createSankey: `options`
  computedNodes,  \* createSankey: `computedNodes`, also the handlers' `nodes`
  computedLinks,  \* createSankey: `computedLinks`
  resizeHandler,  \* ResizeHandler: activeNode, activeHandleSide, startLength, startPos
  dragHandler,    \* DragHandler: dragging, dragOffset, hasMoved
  linkOrderHandler, \* LinkOrderHandler: dragging, siblingHandles
  emitted,        \* payload of the last 'layoutChange' event
  steps,          \* number of operations performed on the instance
  animationId,    \* Animator: `animationId`, NullId for null
  transitionDuration, \* Animator: `options.transitionDuration`, in clock ticks
  frameQueue,     \* frame callbacks requested and not yet run or cancelled
  lastFrameId,    \* the id requestAnimationFrame returned last
  anims,          \* the closures of the animateTo calls made so far
  dom,            \* the animated attributes: a node's thickness, a link's path
  now,            \* performance.now(), in clock ticks
  stack,          \* callbacks of the Animator that have not returned yet
  listeners,      \* EventEmitter: `listeners`, event -> callbacks in subscription order
  tokens,         \* the unsubscribe functions `on` has returned so far
  heap,           \* the node and link objects that exist, an object's reference is its index
  passed,         \* the arrays the caller passed to createSankey and setData, as references
  instances       \* the graph of each diagram instance: graph.nodes, graph.links as references

pureVars == <<inNodes, inLinks, inOptions>>
instVars == <<graph, options, computedNodes, computedLinks, resizeHandler, dragHandler,
              linkOrderHandler, emitted, steps>>
animVars == <<animationId, transitionDuration, frameQueue, lastFrameId, anims, dom,
              now, stack>>
emitVars == <<listeners, tokens>>
ownVars == <<heap, passed, instances>>
vars == <<inNodes, inLinks, inOptions, res, graph, options, computedNodes,
          computedLinks, resizeHandler, dragHandler, linkOrderHandler, emitted, steps,
          animationId,
          transitionDuration, frameQueue, lastFrameId, anims, dom, now, stack,
          listeners, tokens, heap, passed, instances>>

(***************************************************************************)
(* JavaScript helpers                                                      *)
(***************************************************************************)
\* a ?? b
Coalesce(a, b) == IF a = Undefined THEN b ELSE a

\* obj[k] = v on a plain object used as a map
Put(f, k, v) == [x \in (DOMAIN f) \cup {k} |-> IF x = k THEN v ELSE f[x]]

EmptyMap == [x \in {} |-> 0]

SeqsUpTo(S, n) == UNION {[1..k -> S] : k \in 0..n}

(***************************************************************************)
(* core/Graph.ts: createGraph                                              *)
(***************************************************************************)
RECURSIVE ValidateNodes(_, _, _)
ValidateNodes(nodes, i, nodeIds) ==
  IF i > Len(nodes) THEN [ok |-> TRUE, nodeIds |-> nodeIds]
  ELSE IF nodes[i].id \in nodeIds THEN [ok |-> FALSE, nodeIds |-> nodeIds]
  ELSE ValidateNodes(nodes, i + 1, nodeIds \cup {nodes[i].id})

RECURSIVE ValidateLinksNoTarget(_, _, _)
ValidateLinksNoTarget(links, i, nodeIds) ==
  IF i > Len(links) THEN "ok"
  ELSE IF links[i].source \notin nodeIds THEN "unknown source"
  ELSE ValidateLinksNoTarget(links, i + 1, nodeIds)

RECURSIVE ValidateLinks(_, _, _)
ValidateLinks(links, i, nodeIds) ==
  IF i > Len(links) THEN "ok"
  ELSE IF links[i].source \notin nodeIds THEN "unknown source"
  ELSE IF links[i].target \notin nodeIds THEN "unknown target"
  ELSE ValidateLinks(links, i + 1, nodeIds)

\* The result is [ok |-> TRUE, nodes, links] or, for a throw,
\* [ok |-> FALSE, error].
createGraph(nodes, links) ==
  LET v == ValidateNodes(nodes, 1, {}) IN
  IF ~v.ok THEN [ok |-> FALSE, error |-> "duplicate node id"]
  ELSE LET e == ValidateLinks(links, 1, v.nodeIds) IN
       IF e # "ok" THEN [ok |-> FALSE, error |-> e]
       ELSE [ok |-> TRUE, nodes |-> nodes, links |-> links]

(***************************************************************************)
(* core/Layout.ts: extractLayout, applyLayout, applyLinkOrders             *)
(* A Layout is [nodes, hasOrders, linkOrders]; hasOrders tells whether     *)
(* the linkOrders property is present.                                     *)
(***************************************************************************)
RECURSIVE ExtractNodeEntries(_, _, _)
ExtractNodeEntries(nodes, i, acc) ==
  IF i > Len(nodes) THEN acc
  ELSE ExtractNodeEntries(nodes, i + 1,
         Put(acc, nodes[i].id,
             [x |-> nodes[i].x, y |-> nodes[i].y,
              orientation |-> nodes[i].orientation,
              length |-> nodes[i].length]))

RECURSIVE ExtractLinkOrders(_, _, _)
ExtractLinkOrders(links, i, acc) ==
  IF i > Len(links) THEN acc
  ELSE IF links[i].sourceOrder # Undefined \/ links[i].targetOrder # Undefined
       THEN ExtractLinkOrders(links, i + 1,
              Put(acc, links[i].id,
                  [sourceOrder |-> links[i].sourceOrder,
                   targetOrder |-> links[i].targetOrder]))
       ELSE ExtractLinkOrders(links, i + 1, acc)

\* extractLayout(nodes, links)
extractLayout(nodes, links) ==
  LET linkOrders == ExtractLinkOrders(links, 1, EmptyMap) IN
  [nodes |-> ExtractNodeEntries(nodes, 1, EmptyMap),
   hasOrders |-> (DOMAIN linkOrders # {}),
   linkOrders |-> linkOrders]

\* extractLayout(nodes): the handlers' call, without links
extractLayoutNodes(nodes) ==
  [nodes |-> ExtractNodeEntries(nodes, 1, EmptyMap),
   hasOrders |-> FALSE,
   linkOrders |-> EmptyMap]

\* obj[id] on a plain object finds an own property or, failing that, a member
\* inherited from Object.prototype; of the ids used here "constructor" names
\* one: the function Object, which has length 1 and none of the other fields
PrototypeMembers == {"constructor"}

HasProperty(map, id) == id \in DOMAIN map \/ id \in PrototypeMembers

GetNodeEntry(map, id) ==
  IF id \in DOMAIN map THEN map[id]
  ELSE [x |-> Undefined, y |-> Undefined, orientation |-> Undefined, length |-> 1]

GetLinkEntry(map, id) ==
  IF id \in DOMAIN map THEN map[id]
  ELSE [sourceOrder |-> Undefined, targetOrder |-> Undefined]

ApplyNodeDefaultLength(node, layout) ==
  IF HasProperty(layout.nodes, node.id)
  THEN LET savedLayout == GetNodeEntry(layout.nodes, node.id) IN
       [node EXCEPT !.x = savedLayout.x, !.y = savedLayout.y,
                    !.orientation = savedLayout.orientation,
                    !.length = Coalesce(savedLayout.length, DefaultNodeLength)]
  ELSE node

ApplyNodeKeepLength(node, layout) ==
  IF HasProperty(layout.nodes, node.id)
  THEN LET savedLayout == GetNodeEntry(layout.nodes, node.id) IN
       [node EXCEPT !.x = savedLayout.x, !.y = savedLayout.y,
                    !.orientation = savedLayout.orientation]
  ELSE node

ApplyNode(node, layout) ==
  IF HasProperty(layout.nodes, node.id)
  THEN LET savedLayout == GetNodeEntry(layout.nodes, node.id) IN
       [node EXCEPT !.x = savedLayout.x, !.y = savedLayout.y,
                    !.orientation = savedLayout.orientation,
                    !.length = Coalesce(savedLayout.length, node.length)]
  ELSE node

applyLayout(nodes, layout) ==
  [i \in 1..Len(nodes) |-> ApplyNode(nodes[i], layout)]

ApplyLinkNewWins(link, layout) ==
  IF HasProperty(layout.linkOrders, link.id)
  THEN LET savedOrder == GetLinkEntry(layout.linkOrders, link.id) IN
       [link EXCEPT
          !.sourceOrder = Coalesce(link.sourceOrder, savedOrder.sourceOrder),
          !.targetOrder = Coalesce(link.targetOrder, savedOrder.targetOrder)]
  ELSE link

ApplyLink(link, layout) ==
  IF HasProperty(layout.linkOrders, link.id)
  THEN LET savedOrder == GetLinkEntry(layout.linkOrders, link.id) IN
       [link EXCEPT
          !.sourceOrder = Coalesce(savedOrder.sourceOrder, link.sourceOrder),
          !.targetOrder = Coalesce(savedOrder.targetOrder, link.targetOrder)]
  ELSE link

applyLinkOrders(links, layout) ==
  IF ~layout.hasOrders THEN links
  ELSE [i \in 1..Len(links) |-> ApplyLink(links[i], layout)]

(***************************************************************************)
(* core/Graph.ts: getNodeLinks, computeNodes                               *)
(***************************************************************************)
Max(a, b) == IF a >= b THEN a ELSE b
Min(a, b) == IF a <= b THEN a ELSE b

Incoming(links, nodeId) == SelectSeq(links, LAMBDA l : l.target = nodeId)
Outgoing(links, nodeId) == SelectSeq(links, LAMBDA l : l.source = nodeId)

\* links.reduce((sum, link) => sum + link.value, 0)
RECURSIVE SumValues(_)
SumValues(links) ==
  IF links = <<>> THEN 0 ELSE Head(links).value + SumValues(Tail(links))

ComputeNodeMin(node, links, opts) ==
  LET incomingValue == SumValues(Incoming(links, node.id))
      outgoingValue == SumValues(Outgoing(links, node.id))
  IN [id |-> node.id, x |-> node.x, y |-> node.y,
      orientation |-> node.orientation, length |-> node.length,
      thickness |-> Min(incomingValue, outgoingValue) * opts.valueScale,
      incomingValue |-> incomingValue, outgoingValue |-> outgoingValue]

ComputeNode(node, links, opts) ==
  LET incomingValue == SumValues(Incoming(links, node.id))
      outgoingValue == SumValues(Outgoing(links, node.id))
  IN [id |-> node.id, x |-> node.x, y |-> node.y,
      orientation |-> node.orientation, length |-> node.length,
      thickness |-> Max(incomingValue, outgoingValue) * opts.valueScale,
      incomingValue |-> incomingValue, outgoingValue |-> outgoingValue]

computeNodes(g, opts) ==
  [i \in 1..Len(g.nodes) |-> ComputeNode(g.nodes[i], g.links, opts)]

(***************************************************************************)
(* render/PathGenerator.ts: the node footprint of getAttachmentPoint       *)
(***************************************************************************)
NodeFootprintNoFloor(node, opts) ==
  LET length == Coalesce(node.length, opts.nodeLength)
      nodeThickness == node.thickness
      isHorizontal == node.orientation = 0 \/ node.orientation = 180
  IN [width |-> IF isHorizontal THEN length ELSE nodeThickness,
      height |-> IF isHorizontal THEN nodeThickness ELSE length]

NodeFootprint(node, opts) ==
  LET length == Coalesce(node.length, opts.nodeLength)
      nodeThickness == Max(node.thickness, opts.minNodeThickness)
      isHorizontal == node.orientation = 0 \/ node.orientation = 180
  IN [width |-> IF isHorizontal THEN length ELSE nodeThickness,
      height |-> IF isHorizontal THEN nodeThickness ELSE length]

(***************************************************************************)
(* render/PathGenerator.ts: calculateLinkOffsets, in exact arithmetic.     *)
(* A fraction of the edge is [num, den]; with total value T the loop's     *)
(* `cumulative` is cum / T and a link's offset is (2 cum + value) / (2 T). *)
(***************************************************************************)
RelevantLinks(links, nodeId, side) ==
  IF side = "out" THEN Outgoing(links, nodeId) ELSE Incoming(links, nodeId)

RECURSIVE OffsetLoopNoMidpoint(_, _, _, _, _, _)
OffsetLoopNoMidpoint(relevantLinks, i, cumulative, totalValue, opts, offsets) ==
  IF i > Len(relevantLinks) THEN offsets
  ELSE LET link == relevantLinks[i] IN
       OffsetLoopNoMidpoint(relevantLinks, i + 1, cumulative + link.value, totalValue,
                  opts,
                  Put(offsets, link.id,
                      [num |-> 2 * cumulative, den |-> 2 * totalValue,
                       thickness |-> link.value * opts.valueScale]))

RECURSIVE OffsetLoopSpanEnd(_, _, _, _, _, _)
OffsetLoopSpanEnd(relevantLinks, i, cumulative, totalValue, opts, offsets) ==
  IF i > Len(relevantLinks) THEN offsets
  ELSE LET link == relevantLinks[i] IN
       OffsetLoopSpanEnd(relevantLinks, i + 1, cumulative + link.value, totalValue,
                  opts,
                  Put(offsets, link.id,
                      [num |-> 2 * cumulative + 2 * link.value, den |-> 2 * totalValue,
                       thickness |-> link.value * opts.valueScale]))

RECURSIVE OffsetLoop(_, _, _, _, _, _)
OffsetLoop(relevantLinks, i, cumulative, totalValue, opts, offsets) ==
  IF i > Len(relevantLinks) THEN offsets
  ELSE LET link == relevantLinks[i] IN
       OffsetLoop(relevantLinks, i + 1, cumulative + link.value, totalValue, opts,
                  Put(offsets, link.id,
                      [num |-> 2 * cumulative + link.value, den |-> 2 * totalValue,
                       thickness |-> link.value * opts.valueScale]))

calculateLinkOffsets(links, nodeId, side, totalValue, opts) ==
  IF totalValue = 0 THEN EmptyMap
  ELSE OffsetLoop(RelevantLinks(links, nodeId, side), 1, 0, totalValue, opts, EmptyMap)

Half == [num |-> 1, den |-> 2]

(***************************************************************************)
(* render/PathGenerator.ts: computeLinkPaths.  The generated path is kept  *)
(* as the data it is drawn from: the two offsets and the link thickness.   *)
(***************************************************************************)
FindNode(nodes, id) ==
  IF \E i \in 1..Len(nodes) : nodes[i].id = id
  THEN nodes[CHOOSE i \in 1..Len(nodes) :
               nodes[i].id = id /\ \A j \in 1..Len(nodes) : nodes[j].id = id => i <= j]
  ELSE Undefined

\* new Map(nodes.map(n => [n.id, n])).get(id): the last node with that id
MapGetNode(nodes, id) ==
  nodes[CHOOSE i \in 1..Len(nodes) :
          nodes[i].id = id /\ \A j \in 1..Len(nodes) : nodes[j].id = id => j <= i]

HasNode(nodes, id) == \E i \in 1..Len(nodes) : nodes[i].id = id

ComputeLink(nodes, links, link, opts) ==
  LET sourceNode == MapGetNode(nodes, link.source)
      targetNode == MapGetNode(nodes, link.target)
      outOffsets == calculateLinkOffsets(links, sourceNode.id, "out",
                                         sourceNode.outgoingValue, opts)
      inOffsets == calculateLinkOffsets(links, targetNode.id, "in",
                                        targetNode.incomingValue, opts)
  IN [id |-> link.id, source |-> link.source, target |-> link.target,
      value |-> link.value,
      sourceOrder |-> link.sourceOrder, targetOrder |-> link.targetOrder,
      sourceOffset |-> IF link.id \in DOMAIN outOffsets
                       THEN [num |-> outOffsets[link.id].num, den |-> outOffsets[link.id].den]
                       ELSE Half,
      targetOffset |-> IF link.id \in DOMAIN inOffsets
                       THEN [num |-> inOffsets[link.id].num, den |-> inOffsets[link.id].den]
                       ELSE Half,
      thickness |-> link.value * opts.valueScale]

\* computeLinkPaths without the throw: links naming a missing node are skipped
computeLinkPathsSkipsStale(nodes, links, opts) ==
  LET kept == SelectSeq(links, LAMBDA l : HasNode(nodes, l.source) /\ HasNode(nodes, l.target))
  IN [ok |-> TRUE,
      links |-> [i \in 1..Len(kept) |-> ComputeLink(nodes, links, kept[i], opts)]]

\* [ok |-> TRUE, links] or, for the throw on a missing node, [ok |-> FALSE]
computeLinkPaths(nodes, links, opts) ==
  IF \E i \in 1..Len(links) : ~HasNode(nodes, links[i].source) \/ ~HasNode(nodes, links[i].target)
  THEN [ok |-> FALSE, error |-> "references missing node"]
  ELSE [ok |-> TRUE,
        links |-> [i \in 1..Len(links) |-> ComputeLink(nodes, links, links[i], opts)]]

(***************************************************************************)
(* Inputs of the pure functions                                            *)
(***************************************************************************)
MkNode(id, x, y, o, len) ==
  [id |-> id, x |-> x, y |-> y, orientation |-> o, length |-> len]

MkLink(id, s, t, v, so, to) ==
  [id |-> id, source |-> s, target |-> t, value |-> v,
   sourceOrder |-> so, targetOrder |-> to]

NoResult == [op |-> "none"]

NullNode == [id |-> ""]

NoLayout == [nodes |-> EmptyMap, hasOrders |-> FALSE, linkOrders |-> EmptyMap]

ResizeIdle ==
  [activeNode |-> NullNode, activeHandleSide |-> "null",
   startLength |-> 0, startPos |-> [x |-> 0, y |-> 0]]

DragIdle ==
  [dragging |-> NullNode, dragOffset |-> [x |-> 0, y |-> 0], hasMoved |-> FALSE]

NullHandle == [linkId |-> ""]

LinkOrderIdle == [dragging |-> NullHandle, siblingHandles |-> <<>>]

NullId == 0

\* the Animator's variables where no Animator is involved
AnimatorIdle ==
  /\ animationId = NullId
  /\ transitionDuration = 0
  /\ frameQueue = {}
  /\ lastFrameId = 0
  /\ anims = <<>>
  /\ dom = [thickness |-> 0, path |-> 0]
  /\ now = 0
  /\ stack = <<>>

\* the EventEmitter's variables where no EventEmitter is involved
EmitterIdle ==
  /\ listeners = EmptyMap
  /\ tokens = {}

\* no diagram instance has been created from arrays of the caller
OwnersIdle ==
  /\ heap = [nodes |-> <<>>, links |-> <<>>]
  /\ passed = [nodes |-> <<>>, links |-> <<>>]
  /\ instances = <<>>

\* the instance variables while a pure function is checked on its own
InstanceIdle ==
  /\ graph = [nodes |-> <<>>, links |-> <<>>]
  /\ options = DefaultOptions
  /\ computedNodes = <<>>
  /\ computedLinks = <<>>
  /\ resizeHandler = ResizeIdle
  /\ dragHandler = DragIdle
  /\ linkOrderHandler = LinkOrderIdle
  /\ emitted = NoLayout
  /\ steps = 0

(***************************************************************************)
(* SpecGraph: createGraph on arbitrary node and link lists                 *)
(***************************************************************************)
GraphInputNodes == {MkNode(id, 0, 0, 0, Undefined) : id \in NodeIds}
GraphInputLinks ==
  {MkLink(id, s, t, 1, Undefined, Undefined) :
     id \in {"l1"}, s \in NodeIds \cup {UnknownId}, t \in NodeIds \cup {UnknownId}}

InitGraph ==
  /\ inNodes \in SeqsUpTo(GraphInputNodes, MaxNodes + 1)
  /\ inLinks \in SeqsUpTo(GraphInputLinks, MaxLinks)
  /\ inOptions = DefaultOptions
  /\ res = NoResult
  /\ InstanceIdle
  /\ AnimatorIdle
  /\ EmitterIdle
  /\ OwnersIdle

CallCreateGraph ==
  /\ res.op = "none"
  /\ res' = [op |-> "createGraph", graph |-> createGraph(inNodes, inLinks)]
  /\ UNCHANGED <<pureVars, emitVars, ownVars, instVars, animVars>>

NextGraph == CallCreateGraph

SpecGraph == InitGraph /\ [][NextGraph]_vars

(***************************************************************************)
(* SpecCodec: the layout round trip on arbitrary node and link lists       *)
(***************************************************************************)
CodecInputNodes ==
  {MkNode(id, 0, MaxCoord, 0, Undefined) : id \in NodeIds} \cup
  {MkNode(id, MaxCoord, 0, 90, 5) : id \in NodeIds} \cup
  {MkNode(id, MaxCoord, MaxCoord, 270, 7) : id \in NodeIds}

CodecInputLinks ==
  {MkLink(id, "a", "b", 1, so, to) :
     id \in LinkIds,
     so \in {Undefined, MaxOrder}, to \in {Undefined, 0}}

InitCodec ==
  /\ inNodes \in SeqsUpTo(CodecInputNodes, MaxNodes)
  /\ inLinks \in SeqsUpTo(CodecInputLinks, MaxLinks)
  /\ inOptions = DefaultOptions
  /\ res = NoResult
  /\ InstanceIdle
  /\ AnimatorIdle
  /\ EmitterIdle
  /\ OwnersIdle

CallRoundTrip ==
  /\ res.op = "none"
  /\ LET layout == extractLayout(inNodes, inLinks) IN
     res' = [op |-> "roundTrip", layout |-> layout,
             nodes |-> applyLayout(inNodes, layout),
             links |-> applyLinkOrders(inLinks, layout)]
  /\ UNCHANGED <<pureVars, emitVars, ownVars, instVars, animVars>>

NextCodec == CallRoundTrip

SpecCodec == InitCodec /\ [][NextCodec]_vars

(***************************************************************************)
(* SpecApply: applyLayout and applyLinkOrders with a saved layout that was *)
(* not taken from the lists it is applied to                               *)
(***************************************************************************)
ApplyInputNodes ==
  {MkNode(id, 0, MaxCoord, 90, len) : id \in {"a", "b", "constructor"}, len \in {Undefined, 5}}

ApplyInputLinks ==
  {MkLink(id, "a", "b", 1, so, to) :
     id \in LinkIds, so \in {Undefined, MaxOrder}, to \in {Undefined, 0}}

\* entries of a saved layout: for node a with and without a length, for an id
\* that is in no graph; for link l1 with one key or both, for an unknown link
SavedNodeMaps ==
  {EmptyMap} \cup
  {Put(Put(EmptyMap, "a", [x |-> MaxCoord, y |-> 0, orientation |-> 180, length |-> len]),
       UnknownId, [x |-> 0, y |-> 0, orientation |-> 0, length |-> 7]) :
     len \in {Undefined, 9}}

SavedLinkMaps ==
  {EmptyMap} \cup
  {Put(Put(EmptyMap, "l1", [sourceOrder |-> so, targetOrder |-> to]),
       UnknownId, [sourceOrder |-> 0, targetOrder |-> 0]) :
     so \in {Undefined, 0}, to \in {Undefined, MaxOrder}}

InitApply ==
  /\ inNodes \in SeqsUpTo(ApplyInputNodes, MaxNodes)
  /\ inLinks \in SeqsUpTo(ApplyInputLinks, 1)
  /\ inOptions = DefaultOptions
  /\ \E nodeMap \in SavedNodeMaps, linkMap \in SavedLinkMaps, hasOrders \in BOOLEAN :
       /\ ~hasOrders => linkMap = EmptyMap
       /\ res = [op |-> "args",
                 layout |-> [nodes |-> nodeMap, hasOrders |-> hasOrders,
                             linkOrders |-> linkMap]]
  /\ InstanceIdle
  /\ AnimatorIdle
  /\ EmitterIdle
  /\ OwnersIdle

CallApplyLayout ==
  /\ res.op = "args"
  /\ res' = [op |-> "applyLayout", layout |-> res.layout,
             nodes |-> applyLayout(inNodes, res.layout),
             links |-> applyLinkOrders(inLinks, res.layout)]
  /\ UNCHANGED <<pureVars, emitVars, ownVars, instVars, animVars>>

NextApply == CallApplyLayout

SpecApply == InitApply /\ [][NextApply]_vars

(***************************************************************************)
(* SpecPaths: computeNodes and computeLinkPaths on a valid graph, as       *)
(* computeAndRender calls them.  Link ids are pairwise distinct.           *)
(***************************************************************************)
PathLinkId(i) == IF i = 1 THEN "l1" ELSE IF i = 2 THEN "l2"
                 ELSE IF i = 3 THEN "l3" ELSE "l4"

PathEndpoints == {<<"a", "b">>, <<"b", "a">>, <<"a", "a">>}

PathInputNodes == <<MkNode("a", 0, 0, 0, Undefined), MkNode("b", 8, 0, 90, 30)>>

\* k links with the given endpoints, values and order keys
PathInputLinks(k, e, v, so, to) ==
  [i \in 1..k |-> MkLink(PathLinkId(i), e[i][1], e[i][2], v[i], so[i], to[i])]

\* the links of the README's one-link diagram and of a node with two
\* outgoing links of values 6 and 4
ScenarioLinks ==
  { <<MkLink("l1", "a", "b", 10, Undefined, Undefined)>>,
    <<MkLink("l1", "a", "b", 6, Undefined, Undefined),
      MkLink("l2", "a", "b", 4, Undefined, Undefined)>> }

InitPaths ==
  /\ inNodes = PathInputNodes
  /\ \/ /\ \E k \in 0..MaxLinks :
            \E e \in [1..k -> PathEndpoints], v \in [1..k -> 0..MaxValue],
               so \in [1..k -> OrderKeys], to \in [1..k -> {Undefined, 0}] :
              inLinks = PathInputLinks(k, e, v, so, to)
        /\ inOptions = [DefaultOptions EXCEPT !.valueScale = 2]
     \/ /\ inLinks \in ScenarioLinks
        /\ inOptions = DefaultOptions
  /\ res = NoResult
  /\ InstanceIdle
  /\ AnimatorIdle
  /\ EmitterIdle
  /\ OwnersIdle

CallComputeLinkPaths ==
  /\ res.op = "none"
  /\ LET cn == computeNodes([nodes |-> inNodes, links |-> inLinks], inOptions) IN
     res' = [op |-> "computeLinkPaths",
             nodes |-> cn,
             footprints |-> [i \in 1..Len(cn) |-> NodeFootprint(cn[i], inOptions)],
             paths |-> computeLinkPaths(cn, inLinks, inOptions)]
  /\ UNCHANGED <<pureVars, emitVars, ownVars, instVars, animVars>>

NextPaths == CallComputeLinkPaths

SpecPaths == InitPaths /\ [][NextPaths]_vars

(***************************************************************************)
(* render/PathGenerator.ts: getAttachmentPoint.  The offset is a fraction  *)
(* [num, den]; x and y are returned multiplied by `scale` = 2 * den so     *)
(* that half widths and fractions of the edge stay integers.               *)
(***************************************************************************)
AttachmentEdgeNoMirror(orientation, side) ==
  IF orientation = 0 \/ orientation = 180
  THEN (IF side = "in" THEN "left" ELSE "right")
  ELSE (IF side = "in" THEN "top" ELSE "bottom")

AttachmentEdge(orientation, side) ==
  IF orientation = 0 THEN (IF side = "in" THEN "left" ELSE "right")
  ELSE IF orientation = 90 THEN (IF side = "in" THEN "top" ELSE "bottom")
  ELSE IF orientation = 180 THEN (IF side = "in" THEN "right" ELSE "left")
  ELSE (IF side = "in" THEN "bottom" ELSE "top")

getAttachmentPoint(node, side, offset, linkThickness, opts) ==
  LET footprint == NodeFootprint(node, opts)
      width == footprint.width
      height == footprint.height
      edgeSide == AttachmentEdge(node.orientation, side)
      scale == 2 * offset.den
      left == scale * node.x - offset.den * width
      right == scale * node.x + offset.den * width
      top == scale * node.y - offset.den * height
      bottom == scale * node.y + offset.den * height
  IN [edge |-> edgeSide, scale |-> scale,
      x |-> IF edgeSide = "left" THEN left
            ELSE IF edgeSide = "right" THEN right
            ELSE left + 2 * width * offset.num,
      y |-> IF edgeSide = "top" THEN top
            ELSE IF edgeSide = "bottom" THEN bottom
            ELSE top + 2 * height * offset.num,
      dx |-> IF edgeSide = "left" THEN -1 ELSE IF edgeSide = "right" THEN 1 ELSE 0,
      dy |-> IF edgeSide = "top" THEN -1 ELSE IF edgeSide = "bottom" THEN 1 ELSE 0,
      thickness |-> linkThickness]

(***************************************************************************)
(* SpecAttach: getAttachmentPoint on arbitrary nodes, sides and offsets    *)
(***************************************************************************)
OffsetDen == 4

AttachLengths == {Undefined, 11}

AttachThicknesses == {0, 10}

InitAttach ==
  /\ \E x \in 0..MaxCoord, y \in 0..MaxCoord, o \in Orientations,
        len \in AttachLengths, th \in AttachThicknesses :
       inNodes = <<[id |-> "a", x |-> x, y |-> y, orientation |-> o, length |-> len,
                    thickness |-> th, incomingValue |-> th, outgoingValue |-> th]>>
  /\ inLinks = <<>>
  /\ inOptions = DefaultOptions
  /\ \E side \in {"in", "out"}, num \in 0..OffsetDen :
       res = [op |-> "args", side |-> side, offset |-> [num |-> num, den |-> OffsetDen]]
  /\ InstanceIdle
  /\ AnimatorIdle
  /\ EmitterIdle
  /\ OwnersIdle

CallGetAttachmentPoint ==
  /\ res.op = "args"
  /\ res' = [op |-> "getAttachmentPoint", side |-> res.side, offset |-> res.offset,
             point |-> getAttachmentPoint(inNodes[1], res.side, res.offset, 1, inOptions)]
  /\ UNCHANGED <<pureVars, emitVars, ownVars, instVars, animVars>>

NextAttach == CallGetAttachmentPoint

SpecAttach == InitAttach /\ [][NextAttach]_vars

(***************************************************************************)
(* Spec: one createSankey instance.  The caller's data follows the data    *)
(* model: link ids are pairwise distinct (createGraph does not check it).  *)
(***************************************************************************)
DataNodeLists ==
  { <<MkNode("a", 0, 0, 0, Undefined)>>,
    <<MkNode("a", MaxCoord, MaxCoord, 90, 11), MkNode("b", 0, 0, 0, Undefined)>>,
    <<MkNode("b", MaxCoord, 0, 180, 11), MkNode("a", 0, MaxCoord, 270, Undefined)>>,
    <<MkNode("a", 0, 0, 0, Undefined), MkNode("a", MaxCoord, 0, 90, 11)>> }

DataLinkLists ==
  { <<>>,
    <<MkLink("l1", "a", "b", MaxValue, 0, MaxOrder), MkLink("l2", "a", "b", 1, MaxOrder, 0)>>,
    <<MkLink("l2", "b", "a", MaxValue, Undefined, Undefined),
      MkLink("l1", "a", "a", 1, MaxOrder, Undefined)>>,
    <<MkLink("l1", "a", UnknownId, 1, Undefined, Undefined)>> }

LayoutChoices ==
  {extractLayout(n, l) :
     n \in {nl \in DataNodeLists : Len(nl) = 2 /\ nl[1].id = "b"},
     l \in {ll \in DataLinkLists : Len(ll) = 2}}

OptionChoices == {<<"minNodeLength", 14>>, <<"nodeLength", 12>>}

PointerPositions == [x : 0..MaxPointer, y : 0..MaxPointer]

\* where a handle is pressed
PressPositions == {[x |-> 0, y |-> 0]}

\* computeAndRender: the computed nodes and links of a graph
RenderNodes(g, opts) == computeNodes(g, opts)
RenderLinks(g, opts) == computeLinkPaths(computeNodes(g, opts), g.links, opts).links

\* nodes.find(n => n.id === id), for an id that is present
IndexOfNode(nodes, id) ==
  CHOOSE i \in 1..Len(nodes) :
    nodes[i].id = id /\ \A j \in 1..Len(nodes) : nodes[j].id = id => i <= j

\* config.options: a scale that draws the links wide enough for the handles of
\* one node side to lie further apart than the swap threshold
WideScale == 16

InstanceOptions == [DefaultOptions EXCEPT !.valueScale = WideScale]

Init ==
  /\ inNodes = <<>> /\ inLinks = <<>> /\ inOptions = DefaultOptions
  /\ res = NoResult
  /\ options = InstanceOptions
  /\ \E nodes \in DataNodeLists, links \in DataLinkLists :
       LET g == createGraph(nodes, links) IN
       /\ g.ok
       /\ graph = [nodes |-> g.nodes, links |-> g.links]
  /\ computedNodes = RenderNodes(graph, options)
  /\ computedLinks = RenderLinks(graph, options)
  /\ resizeHandler = ResizeIdle
  /\ dragHandler = DragIdle
  /\ linkOrderHandler = LinkOrderIdle
  /\ emitted = NoLayout
  /\ steps = 0
  /\ AnimatorIdle
  /\ EmitterIdle
  /\ OwnersIdle

Step == steps < MaxSteps /\ steps' = steps + 1

\* setData storing the new lists before they are validated
SetDataStoresUnchecked(newNodes, newLinks) ==
  LET currentLayout == extractLayout(graph.nodes, graph.links)
      layoutedNodes == applyLayout(newNodes, currentLayout)
      orderedLinks == applyLinkOrders(newLinks, currentLayout)
      g == createGraph(layoutedNodes, orderedLinks)
  IN /\ Step
     /\ res' = [op |-> "setData", ok |-> g.ok,
                newNodes |-> newNodes, newLinks |-> newLinks]
     /\ graph' = [nodes |-> layoutedNodes, links |-> orderedLinks]
     /\ IF g.ok
        THEN /\ computedNodes' = RenderNodes(graph', options)
             /\ computedLinks' = RenderLinks(graph', options)
        ELSE UNCHANGED <<computedNodes, computedLinks>>
     /\ UNCHANGED <<pureVars, emitVars, ownVars, animVars, dragHandler, linkOrderHandler, options, resizeHandler, emitted>>

\* setData(newNodes, newLinks)
SetData(newNodes, newLinks) ==
  LET currentLayout == extractLayout(graph.nodes, graph.links)
      layoutedNodes == applyLayout(newNodes, currentLayout)
      orderedLinks == applyLinkOrders(newLinks, currentLayout)
      g == createGraph(layoutedNodes, orderedLinks)
  IN /\ Step
     /\ res' = [op |-> "setData", ok |-> g.ok,
                newNodes |-> newNodes, newLinks |-> newLinks]
     /\ IF g.ok
        THEN /\ graph' = [nodes |-> g.nodes, links |-> g.links]
             /\ computedNodes' = RenderNodes(graph', options)
             /\ computedLinks' = RenderLinks(graph', options)
        ELSE UNCHANGED <<graph, computedNodes, computedLinks>>
     /\ UNCHANGED <<pureVars, emitVars, ownVars, animVars, dragHandler, linkOrderHandler, options, resizeHandler, emitted>>

\* setLayout(layout)
SetLayout(layout) ==
  LET g == createGraph(applyLayout(graph.nodes, layout),
                       applyLinkOrders(graph.links, layout))
  IN /\ Step
     /\ g.ok
     /\ res' = [op |-> "setLayout"]
     /\ graph' = [nodes |-> g.nodes, links |-> g.links]
     /\ computedNodes' = RenderNodes(graph', options)
     /\ computedLinks' = RenderLinks(graph', options)
     /\ emitted' = layout
     /\ UNCHANGED <<pureVars, emitVars, ownVars, animVars, dragHandler, linkOrderHandler, options, resizeHandler>>

\* setOption(key, value)
SetOption(key, value) ==
  /\ Step
  /\ res' = [op |-> "setOption", key |-> key, value |-> value]
  /\ options' = [options EXCEPT ![key] = value]
  /\ computedNodes' = RenderNodes(graph, options')
  /\ computedLinks' = RenderLinks(graph, options')
  /\ UNCHANGED <<pureVars, emitVars, ownVars, animVars, dragHandler, linkOrderHandler, graph, resizeHandler, emitted>>

\* one pointer: a press or a double click happens only while no gesture is held
PointerFree ==
  /\ resizeHandler.activeNode = NullNode
  /\ dragHandler.dragging = NullNode
  /\ linkOrderHandler.dragging = NullHandle

(***************************************************************************)
(* interaction/RotateHandler.ts and the onRotate callback of index.ts      *)
(***************************************************************************)
OrientationCycle == <<0, 90, 180, 270>>

\* orientations.indexOf(o), zero-based, -1 when absent
IndexOfOrientation(o) ==
  IF \E i \in 1..4 : OrientationCycle[i] = o
  THEN (CHOOSE i \in 1..4 : OrientationCycle[i] = o) - 1
  ELSE -1

RotateOrientationNoWrap(o) == OrientationCycle[Min(IndexOfOrientation(o) + 1, 3) + 1]

RotateOrientation(o) == OrientationCycle[((IndexOfOrientation(o) + 1) % 4) + 1]

\* dblclick on the element of node `id`: rotateNode, then onRotate
Rotate(id) ==
  /\ Step
  /\ PointerFree
  /\ HasNode(computedNodes, id)
  /\ LET i == IndexOfNode(computedNodes, id)
         node == computedNodes[i]
         newOrientation == RotateOrientation(node.orientation)
         handlerNodes == [computedNodes EXCEPT ![i].orientation = newOrientation]
         layout == extractLayoutNodes(handlerNodes)
         streak == IF res.op = "rotate" /\ res.id = id /\ res.streak < 4
                   THEN res.streak + 1 ELSE 1
     IN /\ graph' = IF HasNode(graph.nodes, id)
                    THEN [graph EXCEPT
                            !.nodes[IndexOfNode(graph.nodes, id)].orientation = newOrientation]
                    ELSE graph
        /\ emitted' = layout
        /\ res' = [op |-> "rotate", id |-> id,
                   from |-> IF HasNode(graph.nodes, id)
                            THEN graph.nodes[IndexOfNode(graph.nodes, id)].orientation
                            ELSE Undefined,
                   streak |-> streak,
                   origin |-> IF streak = 1 THEN node.orientation ELSE res.origin]
  /\ computedNodes' = RenderNodes(graph', options)
  /\ computedLinks' = RenderLinks(graph', options)
  /\ UNCHANGED <<pureVars, emitVars, ownVars, animVars, dragHandler, linkOrderHandler, options, resizeHandler>>

(***************************************************************************)
(* interaction/ResizeHandler.ts and the onResize / onResizeEnd callbacks   *)
(***************************************************************************)
ResizeDelta(activeNode, side, startPos, currentPos) ==
  LET isHorizontal == activeNode.orientation = 0 \/ activeNode.orientation = 180
      rawDelta == IF isHorizontal THEN currentPos.x - startPos.x
                  ELSE currentPos.y - startPos.y
  IN IF side = "end" THEN rawDelta ELSE 0 - rawDelta

ResizeNewLengthNoFloor(startLength, delta, opts) == startLength + delta * 2

ResizeNewLength(startLength, delta, opts) ==
  Max(opts.minNodeLength, startLength + delta * 2)

GrabOffsetAtCentre(pos, node) == [x |-> 0, y |-> 0]

\* this.dragOffset: from the node's centre to the pointer, at the press
GrabOffset(pos, node) == [x |-> pos.x - node.x, y |-> pos.y - node.y]

\* the elements a mousedown passes, from its target upwards, that have a
\* mousedown listener: a resize handle is a child of its node's group, the
\* link handles are in a group of their own
PressPath(target) ==
  IF target = "resizeHandle" THEN <<"resizeHandle", "node">>
  ELSE IF target = "linkHandle" THEN <<"linkHandle">>
  ELSE <<"node">>

StopsPropagationNever(element) == FALSE

\* e.stopPropagation() in the element's mousedown listener
StopsPropagation(element) == element \in {"resizeHandle", "linkHandle"}

\* the listeners a mousedown on `target` runs
Delivered(target) ==
  LET path == PressPath(target)
      stops == {i \in 1..Len(path) : StopsPropagation(path[i])}
  IN {path[i] : i \in {j \in 1..Len(path) : \A k \in stops : j <= k}}

\* mousedown on a resize handle of node `id`; the node's own listener
\* (DragHandler.onNodeMouseDown) runs too if the event reaches it
ResizeDown(id, side, pos) ==
  /\ Step
  /\ PointerFree
  /\ HasNode(computedNodes, id)
  /\ LET node == computedNodes[IndexOfNode(computedNodes, id)] IN
     /\ resizeHandler' = [activeNode |-> node, activeHandleSide |-> side,
                          startLength |-> Coalesce(node.length, options.nodeLength),
                          startPos |-> pos]
     /\ dragHandler' = IF "node" \in Delivered("resizeHandle")
                       THEN [dragging |-> node, dragOffset |-> GrabOffset(pos, node),
                             hasMoved |-> FALSE]
                       ELSE dragHandler
  /\ res' = [op |-> "resizeDown", id |-> id, pos |-> pos]
  /\ UNCHANGED <<pureVars, emitVars, ownVars, animVars, linkOrderHandler, graph, options, computedNodes, computedLinks, emitted>>

ResizeMoveShiftsNode(pos) ==
  /\ Step
  /\ resizeHandler.activeNode # NullNode
  /\ resizeHandler.activeHandleSide # "null"
  /\ LET id == resizeHandler.activeNode.id
         delta == ResizeDelta(resizeHandler.activeNode, resizeHandler.activeHandleSide,
                              resizeHandler.startPos, pos)
         newLength == ResizeNewLength(resizeHandler.startLength, delta, options)
     IN /\ graph' = IF HasNode(graph.nodes, id)
                    THEN [graph EXCEPT !.nodes[IndexOfNode(graph.nodes, id)].length = newLength,
                                       !.nodes[IndexOfNode(graph.nodes, id)].x = @ - delta]
                    ELSE graph
        /\ res' = [op |-> "resizeMove", id |-> id, pos |-> pos]
  /\ computedNodes' = RenderNodes(graph', options)
  /\ computedLinks' = RenderLinks(graph', options)
  /\ UNCHANGED <<pureVars, emitVars, ownVars, animVars, dragHandler, linkOrderHandler, options, resizeHandler, emitted>>

\* mousemove on the document while a handle is held
ResizeMove(pos) ==
  /\ Step
  /\ resizeHandler.activeNode # NullNode
  /\ resizeHandler.activeHandleSide # "null"
  /\ LET id == resizeHandler.activeNode.id
         delta == ResizeDelta(resizeHandler.activeNode, resizeHandler.activeHandleSide,
                              resizeHandler.startPos, pos)
         newLength == ResizeNewLength(resizeHandler.startLength, delta, options)
     IN /\ graph' = IF HasNode(graph.nodes, id)
                    THEN [graph EXCEPT !.nodes[IndexOfNode(graph.nodes, id)].length = newLength]
                    ELSE graph
        /\ res' = [op |-> "resizeMove", id |-> id, pos |-> pos]
  /\ computedNodes' = RenderNodes(graph', options)
  /\ computedLinks' = RenderLinks(graph', options)
  /\ UNCHANGED <<pureVars, emitVars, ownVars, animVars, dragHandler, linkOrderHandler, options, resizeHandler, emitted>>

\* mouseup on the document while a handle is held
ResizeUp ==
  /\ Step
  /\ resizeHandler.activeNode # NullNode
  /\ emitted' = extractLayoutNodes(computedNodes)
  /\ resizeHandler' = [resizeHandler EXCEPT !.activeNode = NullNode,
                                            !.activeHandleSide = "null"]
  /\ res' = [op |-> "resizeUp", id |-> resizeHandler.activeNode.id]
  /\ UNCHANGED <<pureVars, emitVars, ownVars, animVars, dragHandler, linkOrderHandler, graph, options, computedNodes, computedLinks>>

(***************************************************************************)
(* interaction/DragHandler.ts and the onDrag / onDragEnd callbacks.        *)
(* InteractionManager hands the handler onDrag and onDragEnd only, so      *)
(* `calls` (the callbacks an event invoked) never holds onDragStart.       *)
(***************************************************************************)
\* mousedown on the element of node `id`
DragDown(id, pos) ==
  /\ Step
  /\ PointerFree
  /\ HasNode(computedNodes, id)
  /\ LET node == computedNodes[IndexOfNode(computedNodes, id)] IN
     dragHandler' = [dragging |-> node,
                     dragOffset |-> GrabOffset(pos, node),
                     hasMoved |-> FALSE]
  /\ res' = [op |-> "dragDown", id |-> id, calls |-> {}, pos |-> pos]
  /\ UNCHANGED <<pureVars, emitVars, ownVars, animVars, graph, options, computedNodes, computedLinks,
                 resizeHandler, linkOrderHandler, emitted>>

\* onDrag recomputing before it has written the new position to the graph
DragMoveRendersFirst(pos) ==
  /\ Step
  /\ dragHandler.dragging # NullNode
  /\ LET id == dragHandler.dragging.id
         newX == pos.x - dragHandler.dragOffset.x
         newY == pos.y - dragHandler.dragOffset.y
     IN /\ dragHandler' = [dragHandler EXCEPT !.hasMoved = TRUE,
                                              !.dragging.x = newX, !.dragging.y = newY]
        /\ graph' = IF HasNode(graph.nodes, id)
                    THEN [graph EXCEPT !.nodes[IndexOfNode(graph.nodes, id)].x = newX,
                                       !.nodes[IndexOfNode(graph.nodes, id)].y = newY]
                    ELSE graph
        /\ res' = [op |-> "dragMove", id |-> id, calls |-> {"onDrag"}, pos |-> pos]
  /\ computedNodes' = RenderNodes(graph, options)
  /\ computedLinks' = RenderLinks(graph, options)
  /\ UNCHANGED <<pureVars, emitVars, ownVars, animVars, options, resizeHandler, linkOrderHandler, emitted>>

\* mousemove on the document while a node is held
DragMove(pos) ==
  /\ Step
  /\ dragHandler.dragging # NullNode
  /\ LET id == dragHandler.dragging.id
         newX == pos.x - dragHandler.dragOffset.x
         newY == pos.y - dragHandler.dragOffset.y
     IN /\ dragHandler' = [dragHandler EXCEPT !.hasMoved = TRUE,
                                              !.dragging.x = newX, !.dragging.y = newY]
        /\ graph' = IF HasNode(graph.nodes, id)
                    THEN [graph EXCEPT !.nodes[IndexOfNode(graph.nodes, id)].x = newX,
                                       !.nodes[IndexOfNode(graph.nodes, id)].y = newY]
                    ELSE graph
        /\ res' = [op |-> "dragMove", id |-> id, calls |-> {"onDrag"}, pos |-> pos]
  /\ computedNodes' = RenderNodes(graph', options)
  /\ computedLinks' = RenderLinks(graph', options)
  /\ UNCHANGED <<pureVars, emitVars, ownVars, animVars, options, resizeHandler, linkOrderHandler, emitted>>

ReleaseEmitsAlways(hasMoved) == TRUE

\* onMouseUp: if (this.hasMoved)
ReleaseEmits(hasMoved) == hasMoved

\* mouseup on the document while a node is held
DragUp ==
  /\ Step
  /\ dragHandler.dragging # NullNode
  /\ IF ReleaseEmits(dragHandler.hasMoved)
     THEN /\ emitted' = extractLayoutNodes(computedNodes)
          /\ res' = [op |-> "dragUp", id |-> dragHandler.dragging.id,
                     calls |-> {"onDragEnd"}]
     ELSE /\ UNCHANGED emitted
          /\ res' = [op |-> "dragUp", id |-> dragHandler.dragging.id, calls |-> {}]
  /\ dragHandler' = [dragHandler EXCEPT !.dragging = NullNode, !.hasMoved = FALSE]
  /\ UNCHANGED <<pureVars, emitVars, ownVars, animVars, graph, options, computedNodes, computedLinks,
                 resizeHandler, linkOrderHandler>>

(***************************************************************************)
(* interaction/LinkOrderHandler.ts and the onLinkOrderChange callback.     *)
(* A handle keeps its link, node and side, the fraction of the edge it was *)
(* placed at, the physical edge, and its cx / cy multiplied by `scale`     *)
(* (twice the fraction's denominator) so that they stay integers.          *)
(***************************************************************************)
OrderProp(link, side) == IF side = "source" THEN link.sourceOrder ELSE link.targetOrder

\* the sort comparator is negative: a has a key and b has none or a larger one
SortsBefore(a, b, side) ==
  /\ OrderProp(a, side) # Undefined
  /\ OrderProp(b, side) = Undefined \/ OrderProp(a, side) < OrderProp(b, side)

\* [...nodeLinks].sort(comparator): stable, links without a key last
SortedLinks(nodeLinks, side) ==
  LET Rank(i) == Cardinality({j \in 1..Len(nodeLinks) :
                    \/ SortsBefore(nodeLinks[j], nodeLinks[i], side)
                    \/ /\ ~SortsBefore(nodeLinks[i], nodeLinks[j], side)
                       /\ j < i})
  IN [r \in 1..Len(nodeLinks) |->
        nodeLinks[CHOOSE i \in 1..Len(nodeLinks) : Rank(i) = r - 1]]

EdgeSide(orientation, side) ==
  IF orientation = 0 THEN (IF side = "target" THEN "left" ELSE "right")
  ELSE IF orientation = 90 THEN (IF side = "target" THEN "top" ELSE "bottom")
  ELSE IF orientation = 180 THEN (IF side = "target" THEN "right" ELSE "left")
  ELSE (IF side = "target" THEN "bottom" ELSE "top")

HandleOffset == 8

getHandlePosition(node, side, offset, opts) ==
  LET length == Coalesce(node.length, opts.nodeLength)
      nodeThickness == Max(node.thickness, opts.minNodeThickness)
      isHorizontal == node.orientation = 0 \/ node.orientation = 180
      width == IF isHorizontal THEN length ELSE nodeThickness
      height == IF isHorizontal THEN nodeThickness ELSE length
      edgeSide == EdgeSide(node.orientation, side)
      scale == 2 * offset.den
      left == scale * node.x - offset.den * width
      right == scale * node.x + offset.den * width
      top == scale * node.y - offset.den * height
      bottom == scale * node.y + offset.den * height
  IN [edge |-> edgeSide, scale |-> scale,
      x |-> IF edgeSide = "left" THEN left - scale * HandleOffset
            ELSE IF edgeSide = "right" THEN right + scale * HandleOffset
            ELSE left + 2 * width * offset.num,
      y |-> IF edgeSide = "top" THEN top - scale * HandleOffset
            ELSE IF edgeSide = "bottom" THEN bottom + scale * HandleOffset
            ELSE top + 2 * height * offset.num]

RECURSIVE HandleLoop(_, _, _, _, _, _, _)
HandleLoop(sortedLinks, i, cumulative, totalValue, node, side, opts) ==
  IF i > Len(sortedLinks) THEN <<>>
  ELSE LET link == sortedLinks[i]
           offset == [num |-> 2 * cumulative + link.value, den |-> 2 * totalValue]
           pos == getHandlePosition(node, side, offset, opts)
       IN <<[linkId |-> link.id, nodeId |-> node.id, side |-> side, offset |-> offset,
             edge |-> pos.edge, scale |-> pos.scale, x |-> pos.x, y |-> pos.y]>>
          \o HandleLoop(sortedLinks, i + 1, cumulative + link.value, totalValue,
                        node, side, opts)

createNodeHandles(node, nodeLinks, side, opts) ==
  LET totalValue == IF side = "source" THEN node.outgoingValue ELSE node.incomingValue
  IN IF Len(nodeLinks) < 2 \/ totalValue = 0 THEN <<>>
     ELSE HandleLoop(SortedLinks(nodeLinks, side), 1, 0, totalValue, node, side, opts)

RECURSIVE createHandlesFrom(_, _, _, _)
createHandlesFrom(nodes, i, links, opts) ==
  IF i > Len(nodes) THEN <<>>
  ELSE createNodeHandles(nodes[i], Outgoing(links, nodes[i].id), "source", opts)
       \o createNodeHandles(nodes[i], Incoming(links, nodes[i].id), "target", opts)
       \o createHandlesFrom(nodes, i + 1, links, opts)

createHandles(nodes, links, opts) == createHandlesFrom(nodes, 1, links, opts)

\* this.handles: rebuilt by updateNodes after every recomputation
Handles == createHandles(computedNodes, graph.links, options)

\* mousedown on handle number h: startDrag
LinkDown(h) ==
  /\ Step
  /\ PointerFree
  /\ h \in 1..Len(Handles)
  /\ LET data == Handles[h] IN
     linkOrderHandler' =
       [dragging |-> data,
        siblingHandles |-> SelectSeq(Handles, LAMBDA s :
                             s.nodeId = data.nodeId /\ s.side = data.side
                             /\ s.linkId # data.linkId)]
  /\ res' = [op |-> "linkDown", linkId |-> Handles[h].linkId]
  /\ UNCHANGED <<pureVars, emitVars, ownVars, animVars, graph, options, computedNodes, computedLinks,
                 resizeHandler, dragHandler, emitted>>

OnNodeSide(link, nodeId, side) ==
  IF side = "source" THEN link.source = nodeId ELSE link.target = nodeId

SetOrderProp(link, side, key) ==
  IF side = "source" THEN [link EXCEPT !.sourceOrder = key]
  ELSE [link EXCEPT !.targetOrder = key]

\* ensureOrdersInitialized: a missing key becomes the link's index among the
\* links of that node side
ensureOrdersInitialized(links, nodeId, side) ==
  [k \in 1..Len(links) |->
     IF OnNodeSide(links[k], nodeId, side) /\ OrderProp(links[k], side) = Undefined
     THEN SetOrderProp(links[k], side,
            Cardinality({j \in 1..(k - 1) : OnNodeSide(links[j], nodeId, side)}))
     ELSE links[k]]

HasLinkId(links, id) == \E k \in 1..Len(links) : links[k].id = id

IndexOfLink(links, id) ==
  CHOOSE k \in 1..Len(links) :
    links[k].id = id /\ \A j \in 1..Len(links) : links[j].id = id => k <= j

SwapKeysKeepsOrder(links, a, b, side) == links

\* the exchange of the two links' keys
SwapKeys(links, a, b, side) ==
  [links EXCEPT ![a] = SetOrderProp(links[a], side, OrderProp(links[b], side)),
                ![b] = SetOrderProp(links[b], side, OrderProp(links[a], side))]

\* swapLinkOrders, up to the notification
swapLinkOrders(links, linkIdA, linkIdB, nodeId, side) ==
  LET initialised == ensureOrdersInitialized(links, nodeId, side)
  IN SwapKeys(initialised, IndexOfLink(links, linkIdA), IndexOfLink(links, linkIdB), side)

SwapThreshold == 15

\* checkForSwap: is the pointer closer than the threshold to the sibling
WithinThreshold(sibling, isVertical, dragPos) ==
  LET siblingPos == IF isVertical THEN sibling.y ELSE sibling.x
      diff == dragPos * sibling.scale - siblingPos
  IN (IF diff < 0 THEN 0 - diff ELSE diff) < SwapThreshold * sibling.scale

\* mousemove on the document while a handle is held
LinkMove(pos) ==
  /\ Step
  /\ linkOrderHandler.dragging # NullHandle
  /\ LET dragging == linkOrderHandler.dragging
         siblings == linkOrderHandler.siblingHandles
         found == HasNode(computedNodes, dragging.nodeId)
         node == computedNodes[IndexOfNode(computedNodes, dragging.nodeId)]
         actualSide == EdgeSide(node.orientation, dragging.side)
         isVertical == actualSide = "left" \/ actualSide = "right"
         dragPos == IF isVertical THEN pos.y ELSE pos.x
         near == {k \in 1..Len(siblings) : WithinThreshold(siblings[k], isVertical, dragPos)}
         sibling == siblings[CHOOSE k \in near : \A j \in near : k <= j]
         swaps == /\ found
                  /\ near # {}
                  /\ HasLinkId(graph.links, dragging.linkId)
                  /\ HasLinkId(graph.links, sibling.linkId)
     IN IF swaps
        THEN /\ graph' = [graph EXCEPT !.links =
                            swapLinkOrders(graph.links, dragging.linkId, sibling.linkId,
                                           dragging.nodeId, dragging.side)]
             /\ computedNodes' = RenderNodes(graph', options)
             /\ computedLinks' = RenderLinks(graph', options)
             /\ emitted' = extractLayout(graph'.nodes, graph'.links)
             /\ res' = [op |-> "linkMove", swapped |-> TRUE, pos |-> pos,
                        a |-> dragging.linkId, b |-> sibling.linkId,
                        nodeId |-> dragging.nodeId, side |-> dragging.side,
                        before |-> graph.links]
        ELSE /\ res' = [op |-> "linkMove", swapped |-> FALSE, pos |-> pos]
             /\ UNCHANGED <<graph, computedNodes, computedLinks, emitted>>
  /\ UNCHANGED <<pureVars, emitVars, ownVars, animVars, options, resizeHandler, dragHandler, linkOrderHandler>>

\* mouseup on the document while a handle is held
LinkUp ==
  /\ Step
  /\ linkOrderHandler.dragging # NullHandle
  /\ linkOrderHandler' = LinkOrderIdle
  /\ res' = [op |-> "linkUp"]
  /\ UNCHANGED <<pureVars, emitVars, ownVars, animVars, graph, options, computedNodes, computedLinks,
                 resizeHandler, dragHandler, emitted>>

\* where the pointer is during a handle drag: on the node, or far from it
LinkPointerPositions ==
  {[x |-> 0, y |-> 0], [x |-> FarPointer, y |-> FarPointer]}

Next ==
  \/ \E newNodes \in DataNodeLists, newLinks \in DataLinkLists : SetData(newNodes, newLinks)
  \/ \E layout \in LayoutChoices : SetLayout(layout)
  \/ \E kv \in OptionChoices : SetOption(kv[1], kv[2])
  \/ \E id \in NodeIds : Rotate(id)
  \/ \E id \in NodeIds, side \in {"start", "end"}, pos \in PressPositions :
       ResizeDown(id, side, pos)
  \/ \E pos \in PointerPositions : ResizeMove(pos)
  \/ ResizeUp
  \/ \E id \in NodeIds, pos \in PressPositions : DragDown(id, pos)
  \/ \E pos \in PointerPositions : DragMove(pos)
  \/ DragUp
  \/ \E h \in 1..(2 * MaxLinks) : LinkDown(h)
  \/ \E pos \in LinkPointerPositions : LinkMove(pos)
  \/ LinkUp

Spec == Init /\ [][Next]_vars

(***************************************************************************)
(* SpecAnim: one Animator.  The DOM is reduced to the attributes a frame   *)
(* writes, one node's thickness and one link's path (a number standing for *)
(* a path of fixed structure); values are whole pixels, the fraction of an *)
(* interpolated value is dropped.  onStart and onEnd are the caller's      *)
(* code: while one of them runs it may call animateTo, cancel, destroy or  *)
(* updateOptions before it returns.                                        *)
(***************************************************************************)
AnimTargets == {[thickness |-> 0, path |-> 0], [thickness |-> 8, path |-> 16]}

\* easings.easeOut at rawT = e / d, as a fraction: t * (2 - t)
Easing(e, d) == [num |-> e * (2 * d - e), den |-> d * d]

\* interpolateNumber(a, b)(t)
InterpolateNumber(a, b, t) == a + ((b - a) * t.num) \div t.den

\* cancelAnimationFrame(animationId) on the queue of requested frames
CancelFrameKeepsAll(queue, id) == queue

CancelFrame(queue, id) == {f \in queue : f.id # id}

\* every animateTo call made so far has been followed by an animateTo or a cancel
HaltAll(as) == [i \in 1..Len(as) |-> [as[i] EXCEPT !.halted = TRUE]]

InitAnim ==
  /\ inNodes = <<>> /\ inLinks = <<>> /\ inOptions = DefaultOptions
  /\ res = NoResult
  /\ InstanceIdle
  /\ EmitterIdle
  /\ OwnersIdle
  /\ animationId = NullId
  /\ transitionDuration = MaxDuration
  /\ frameQueue = {}
  /\ lastFrameId = 0
  /\ anims = <<>>
  /\ dom = [thickness |-> DefaultMinNodeThickness, path |-> 0]
  /\ now = 0
  /\ stack = <<>>

\* animateTo(targetNodes, targetLinks), up to the call of onStart
AnimateTo(target) ==
  LET endState == [thickness |-> Max(target.thickness, DefaultMinNodeThickness),
                   path |-> target.path]
      closure == [startState |-> dom, target |-> endState,
                  duration |-> transitionDuration, startTime |-> Undefined,
                  halted |-> FALSE, resolved |-> transitionDuration <= 0]
  IN /\ Len(anims) < MaxAnims
     /\ animationId' = NullId
     /\ frameQueue' = CancelFrame(frameQueue, animationId)
     /\ anims' = Append(HaltAll(anims), closure)
     /\ res' = [op |-> "animateTo", anim |-> Len(anims'), target |-> target,
                 cancelled |-> animationId]
     /\ IF transitionDuration <= 0
        THEN dom' = endState /\ UNCHANGED stack
        ELSE /\ stack' = Append(stack, [at |-> "onStart", anim |-> Len(anims')])
             /\ UNCHANGED dom
     /\ UNCHANGED <<pureVars, emitVars, ownVars, instVars, transitionDuration, lastFrameId, now>>

\* onStart returns: animateTo takes the start time and requests the first frame
OnStartReturn ==
  /\ stack # <<>>
  /\ stack[Len(stack)].at = "onStart"
  /\ LET n == stack[Len(stack)].anim IN
     /\ anims' = [anims EXCEPT ![n].startTime = now]
     /\ lastFrameId' = lastFrameId + 1
     /\ frameQueue' = frameQueue \cup {[id |-> lastFrameId', anim |-> n, requested |-> now]}
     /\ animationId' = lastFrameId'
  /\ stack' = SubSeq(stack, 1, Len(stack) - 1)
  /\ UNCHANGED <<pureVars, emitVars, ownVars, instVars, res, transitionDuration, dom, now>>

RawProgressNoClamp(elapsed, duration) == elapsed

\* rawT = Math.min(elapsed / duration, 1), kept as the numerator over duration
RawProgress(elapsed, duration) == Min(elapsed, duration)

KeepsSchedulingPastEnd(rawT, duration) == rawT <= duration

\* if (rawT < 1): the tick requests the next frame, else it ends the animation
KeepsScheduling(rawT, duration) == rawT < duration

\* the browser runs a requested frame, at a later time than the request: tick
Frame(f) ==
  /\ stack = <<>>
  /\ f \in frameQueue
  /\ f.requested < now
  /\ LET a == anims[f.anim]
         elapsed == now - a.startTime
         rawT == RawProgress(elapsed, a.duration)
         t == Easing(rawT, a.duration)
     IN /\ dom' = [thickness |-> InterpolateNumber(a.startState.thickness, a.target.thickness, t),
                   path |-> InterpolateNumber(a.startState.path, a.target.path, t)]
        /\ res' = [op |-> "frame", anim |-> f.anim, elapsed |-> elapsed, rawT |-> rawT,
                   halted |-> a.halted]
        /\ IF KeepsScheduling(rawT, a.duration)
           THEN /\ lastFrameId' = lastFrameId + 1
                /\ frameQueue' = (frameQueue \ {f}) \cup
                                   {[id |-> lastFrameId', anim |-> f.anim, requested |-> now]}
                /\ animationId' = lastFrameId'
                /\ UNCHANGED stack
           ELSE /\ animationId' = NullId
                /\ frameQueue' = frameQueue \ {f}
                /\ stack' = Append(stack, [at |-> "onEnd", anim |-> f.anim])
                /\ UNCHANGED lastFrameId
  /\ UNCHANGED <<pureVars, emitVars, ownVars, instVars, transitionDuration, anims, now>>

\* onEnd returns: the last tick resolves the promise
OnEndReturn ==
  /\ stack # <<>>
  /\ stack[Len(stack)].at = "onEnd"
  /\ anims' = [anims EXCEPT ![stack[Len(stack)].anim].resolved = TRUE]
  /\ stack' = SubSeq(stack, 1, Len(stack) - 1)
  /\ UNCHANGED <<pureVars, emitVars, ownVars, instVars, res, animationId, transitionDuration, frameQueue,
                 lastFrameId, dom, now>>

\* cancel()
Cancel ==
  /\ res' = [op |-> "cancel", wasAnimating |-> animationId # NullId]
  /\ animationId' = NullId
  /\ frameQueue' = CancelFrame(frameQueue, animationId)
  /\ anims' = HaltAll(anims)
  /\ UNCHANGED <<pureVars, emitVars, ownVars, instVars, transitionDuration, lastFrameId, dom, now, stack>>

\* destroy()
Destroy ==
  /\ res' = [op |-> "destroy", wasAnimating |-> animationId # NullId]
  /\ animationId' = NullId
  /\ frameQueue' = CancelFrame(frameQueue, animationId)
  /\ anims' = HaltAll(anims)
  /\ UNCHANGED <<pureVars, emitVars, ownVars, instVars, transitionDuration, lastFrameId, dom, now, stack>>

\* updateOptions(options)
UpdateOptions(duration) ==
  /\ transitionDuration # duration
  /\ transitionDuration' = duration
  /\ UNCHANGED <<pureVars, emitVars, ownVars, instVars, res, animationId, frameQueue, lastFrameId, anims,
                 dom, now, stack>>

\* time passes between two tasks of the event loop
AdvanceClock ==
  /\ stack = <<>>
  /\ now < MaxTime
  /\ now' = now + 1
  /\ UNCHANGED <<pureVars, emitVars, ownVars, instVars, res, animationId, transitionDuration, frameQueue,
                 lastFrameId, anims, dom, stack>>

NextAnim ==
  \/ \E target \in AnimTargets : AnimateTo(target)
  \/ OnStartReturn
  \/ \E f \in frameQueue : Frame(f)
  \/ OnEndReturn
  \/ Cancel
  \/ Destroy
  \/ \E duration \in {0, MaxDuration} : UpdateOptions(duration)
  \/ AdvanceClock

SpecAnim == InitAnim /\ [][NextAnim]_vars

(***************************************************************************)
(* Claims                                                                  *)
(***************************************************************************)
DistinctIds(s) == \A i, j \in 1..Len(s) : i # j => s[i].id # s[j].id

Resolves(id, nodes) == \E i \in 1..Len(nodes) : nodes[i].id = id

\* C1: createGraph(nodes, links) returns a graph exactly when the node ids are
\* pairwise distinct and every link's source and target name a node of `nodes`;
\* otherwise it throws, and a returned graph holds exactly the given nodes and
\* links (nothing dropped, nothing repaired).
C1_CreateGraphValidates ==
  res.op = "createGraph" =>
    /\ res.graph.ok <=>
         /\ DistinctIds(inNodes)
         /\ \A k \in 1..Len(inLinks) :
              Resolves(inLinks[k].source, inNodes) /\ Resolves(inLinks[k].target, inNodes)
    /\ res.graph.ok => res.graph.nodes = inNodes /\ res.graph.links = inLinks

C1_Witness ==
  /\ res.op = "createGraph"
  /\ ~res.graph.ok
  /\ DistinctIds(inNodes)
  /\ \E k \in 1..Len(inLinks) :
       Resolves(inLinks[k].source, inNodes) /\ ~Resolves(inLinks[k].target, inNodes)

SameLayoutAttrs(n, m) ==
  /\ n.x = m.x /\ n.y = m.y
  /\ n.orientation = m.orientation /\ n.length = m.length

SameOrderKeys(l, m) ==
  l.sourceOrder = m.sourceOrder /\ l.targetOrder = m.targetOrder

NodesRoundTrip ==
  /\ Len(res.nodes) = Len(inNodes)
  /\ \A i \in 1..Len(inNodes) : SameLayoutAttrs(res.nodes[i], inNodes[i])

LinksRoundTrip ==
  /\ Len(res.links) = Len(inLinks)
  /\ \A i \in 1..Len(inLinks) : SameOrderKeys(res.links[i], inLinks[i])

\* C2 as stated: for EVERY node list and link list the round trip
\* applyLayout(nodes, extractLayout(nodes, links)) reproduces x, y, orientation
\* and length of every node, and applyLinkOrders reproduces both order keys of
\* every link.
C2_RoundTripEveryList ==
  res.op = "roundTrip" => NodesRoundTrip /\ LinksRoundTrip

\* C2 amended: the round trip reproduces the nodes' x, y, orientation and length
\* when the node ids are pairwise distinct, and the links' order keys when the
\* link ids are pairwise distinct.
C2_RoundTripDistinctIds ==
  res.op = "roundTrip" =>
    /\ DistinctIds(inNodes) => NodesRoundTrip
    /\ DistinctIds(inLinks) => LinksRoundTrip

C2_Witness ==
  /\ res.op = "roundTrip"
  /\ Len(inNodes) = 2 /\ DistinctIds(inNodes)
  /\ \E i \in 1..2 : inNodes[i].length = Undefined
  /\ Len(inLinks) = 2 /\ DistinctIds(inLinks)
  /\ \E i \in 1..2 : inLinks[i].sourceOrder # Undefined /\ inLinks[i].targetOrder = Undefined
  /\ \E i \in 1..2 : inLinks[i].sourceOrder = Undefined /\ inLinks[i].targetOrder = Undefined

(***************************************************************************)
(* The stacking order the order keys ask for (the comparator of            *)
(* createNodeHandles: a missing key is Infinity, equal keys and two        *)
(* missing keys keep array order).                                         *)
(***************************************************************************)
KeyOf(link, side) == IF side = "out" THEN link.sourceOrder ELSE link.targetOrder

\* link i is stacked before link j
StackedBefore(links, i, j, side) ==
  LET a == KeyOf(links[i], side)
      b == KeyOf(links[j], side)
  IN IF a = Undefined /\ b = Undefined THEN i < j
     ELSE IF a = Undefined THEN FALSE
     ELSE IF b = Undefined THEN TRUE
     ELSE a < b \/ (a = b /\ i < j)

OnSide(link, nodeId, side) ==
  IF side = "out" THEN link.source = nodeId ELSE link.target = nodeId

RECURSIVE SumOver(_, _)
SumOver(S, links) ==
  IF S = {} THEN 0
  ELSE LET i == CHOOSE i \in S : TRUE IN links[i].value + SumOver(S \ {i}, links)

\* 2T times the offset the order keys ask for, for link k on `side` of its node
KeyedOffsetNum(links, k, nodeId, side) ==
  2 * SumOver({i \in 1..Len(links) :
                 OnSide(links[i], nodeId, side) /\ StackedBefore(links, i, k, side)}, links)
  + links[k].value

SideTotal(links, nodeId, side) ==
  SumOver({i \in 1..Len(links) : OnSide(links[i], nodeId, side)}, links)

\* C4: on every node side with total value T > 0 the offsets computeLinkPaths
\* uses stack the side's links by their order key for that side: keyed links in
\* ascending key order, links without a key after all keyed links, unkeyed
\* links in array order.
C4_OffsetsHonourOrderKeys ==
  res.op = "computeLinkPaths" =>
    \A k \in 1..Len(inLinks) :
      LET link == inLinks[k]
          out == SideTotal(inLinks, link.source, "out")
          in == SideTotal(inLinks, link.target, "in")
      IN /\ out > 0 =>
              res.paths.links[k].sourceOffset.num * (2 * out)
                = KeyedOffsetNum(inLinks, k, link.source, "out")
                    * res.paths.links[k].sourceOffset.den
         /\ in > 0 =>
              res.paths.links[k].targetOffset.num * (2 * in)
                = KeyedOffsetNum(inLinks, k, link.target, "in")
                    * res.paths.links[k].targetOffset.den

FootprintThickness(i) ==
  IF res.nodes[i].orientation \in {0, 180}
  THEN res.footprints[i].height ELSE res.footprints[i].width

SideLinks(nodeId, side) ==
  {i \in 1..Len(inLinks) : OnSide(inLinks[i], nodeId, side)}

OffsetOf(k, side) ==
  IF side = "out" THEN res.paths.links[k].sourceOffset
  ELSE res.paths.links[k].targetOffset

\* 2T times the offset of link k, T the total value of the side
OffsetNum2T(k, side, T) == (OffsetOf(k, side).num * 2 * T) \div OffsetOf(k, side).den

SpanStart(k, side, T) == OffsetNum2T(k, side, T) - inLinks[k].value
SpanEnd(k, side, T) == OffsetNum2T(k, side, T) + inLinks[k].value

SideTiles(nodeId, side) ==
  LET K == SideLinks(nodeId, side)
      T == SideTotal(inLinks, nodeId, side)
  IN T > 0 =>
       \* the offset is the sum of the earlier proportions plus half the own one
       /\ \A k \in K :
            OffsetOf(k, side).num * 2 * T
              = (2 * SumOver({i \in K : i < k}, inLinks) + inLinks[k].value)
                  * OffsetOf(k, side).den
       \* pairwise disjoint interiors
       /\ \A i, j \in K : i < j => SpanEnd(i, side, T) <= SpanStart(j, side, T)
       \* contiguous from 0 to 1
       /\ \A k \in K :
            SpanStart(k, side, T) =
              IF \E i \in K : i < k
              THEN SpanEnd(CHOOSE i \in K : i < k /\ \A j \in K : j < k => j <= i, side, T)
              ELSE 0
       /\ \E k \in K : (\A j \in K : j <= k) /\ SpanEnd(k, side, T) = 2 * T
       \* the lengths sum to 1
       /\ SumOver(K, [k \in K |-> [value |-> SpanEnd(k, side, T) - SpanStart(k, side, T)]])
            = 2 * T

\* C5: on every node side with total value T > 0 each link's offset is the sum
\* of value/T of the links stacked before it plus half its own value/T, so the
\* spans [offset - value/(2T), offset + value/(2T)] have pairwise disjoint
\* interiors, are contiguous from 0 to 1 and have lengths summing to 1.
C5_OffsetTiling ==
  res.op = "computeLinkPaths" =>
    \A i \in 1..Len(inNodes) :
      SideTiles(inNodes[i].id, "out") /\ SideTiles(inNodes[i].id, "in")

C5_Witness ==
  /\ res.op = "computeLinkPaths"
  /\ Len(inLinks) = 2
  /\ inLinks[1].source = inLinks[2].source
  /\ inLinks[1].value = 1 /\ inLinks[2].value = 2
  /\ res.paths.links[2].sourceOffset.num * 6 = 4 * res.paths.links[2].sourceOffset.den

(***************************************************************************)
(* Claims about the instance                                               *)
(***************************************************************************)
NodeById(nodes, id) == nodes[CHOOSE i \in 1..Len(nodes) : nodes[i].id = id]

LinkById(links, id) == links[CHOOSE i \in 1..Len(links) : links[i].id = id]

HasLink(links, id) == \E i \in 1..Len(links) : links[i].id = id

KeptNode(old, new) ==
  /\ new.x = old.x /\ new.y = old.y /\ new.orientation = old.orientation
  /\ old.length # Undefined => new.length = old.length

KeptLink(old, new) ==
  /\ old.sourceOrder # Undefined => new.sourceOrder = old.sourceOrder
  /\ old.targetOrder # Undefined => new.targetOrder = old.targetOrder

SetDataKeepsLayout ==
  (res'.op = "setData" /\ res'.ok) =>
    /\ Len(graph'.nodes) = Len(res'.newNodes)
    /\ Len(graph'.links) = Len(res'.newLinks)
    /\ \A i \in 1..Len(graph'.nodes) :
         /\ graph'.nodes[i].id = res'.newNodes[i].id
         /\ HasNode(graph.nodes, graph'.nodes[i].id) =>
              KeptNode(NodeById(graph.nodes, graph'.nodes[i].id), graph'.nodes[i])
    /\ \A k \in 1..Len(graph'.links) :
         /\ graph'.links[k].id = res'.newLinks[k].id
         /\ graph'.links[k].value = res'.newLinks[k].value
         /\ HasLink(graph.links, graph'.links[k].id) =>
              KeptLink(LinkById(graph.links, graph'.links[k].id), graph'.links[k])

\* C3: after setData(newNodes, newLinks) every node whose id was already in the
\* graph keeps its previous x, y and orientation, and its length when that was
\* set; every link whose id was already present keeps its previous sourceOrder
\* and targetOrder when they were set; the link values are those of the new data.
C3_SetDataPreservesLayout == [][SetDataKeepsLayout]_vars

\* a setData after which a node and a link carry the old layout, not the new data's
C3_Witness ==
  /\ res.op = "setData" /\ res.ok
  /\ \E i \in 1..Len(graph.nodes) :
       /\ graph.nodes[i].x # res.newNodes[i].x
       /\ graph.nodes[i].orientation # res.newNodes[i].orientation
  /\ \E k \in 1..Len(graph.links) :
       /\ graph.links[k].sourceOrder # Undefined
       /\ graph.links[k].sourceOrder # res.newLinks[k].sourceOrder

NextInCycle(o) ==
  CASE o = 0 -> 90 [] o = 90 -> 180 [] o = 180 -> 270 [] o = 270 -> 0

\* C6: a rotate gesture on a node advances its orientation exactly one step in
\* the cycle 0 -> 90 -> 180 -> 270 -> 0, in the live graph and in the emitted
\* layout, and four consecutive rotations of a node bring it back to the
\* orientation it started from.  (res.from is the live graph's orientation
\* before the gesture, res.origin the one before the first of the streak.)
C6_RotationCycle ==
  res.op = "rotate" =>
    /\ HasNode(graph.nodes, res.id)
    /\ LET after == NodeById(graph.nodes, res.id).orientation
       IN /\ after = NextInCycle(res.from)
          /\ emitted.nodes[res.id].orientation = after
          /\ res.streak = 4 => after = res.origin

C6_Witness ==
  /\ res.op = "rotate" /\ res.streak = 4
  /\ NodeById(graph.nodes, res.id).orientation = res.origin
  /\ emitted.nodes[res.id].orientation = res.origin

\* the pointer displacement along the length axis of the pressed node,
\* sign-flipped for the start handle
AxisDelta(pos) ==
  LET o == resizeHandler.activeNode.orientation
      along == IF o \in {0, 180} THEN pos.x - resizeHandler.startPos.x
               ELSE pos.y - resizeHandler.startPos.y
  IN IF resizeHandler.activeHandleSide = "start" THEN 0 - along ELSE along

\* C7: during a resize drag the node's length after every move is
\* max(minNodeLength, startLength + 2 * delta), startLength being the length at
\* press (nodeLength if unset) and delta the pointer displacement along the
\* node's length axis, sign-flipped for the start handle; for either end and
\* any orientation, so the length never drops below minNodeLength.
C7_ResizeFloor ==
  /\ res.op = "resizeDown" =>
       resizeHandler.startLength =
         (IF NodeById(graph.nodes, res.id).length = Undefined
          THEN options.nodeLength
          ELSE NodeById(graph.nodes, res.id).length)
  /\ (res.op = "resizeMove" /\ HasNode(graph.nodes, res.id)) =>
       LET len == NodeById(graph.nodes, res.id).length
           want == resizeHandler.startLength + 2 * AxisDelta(res.pos)
       IN /\ len = (IF want >= options.minNodeLength THEN want ELSE options.minNodeLength)
          /\ len >= options.minNodeLength

\* a move of the start handle of a vertical node that the floor cuts short
C7_Witness ==
  /\ res.op = "resizeMove"
  /\ HasNode(graph.nodes, res.id)
  /\ resizeHandler.activeHandleSide = "start"
  /\ resizeHandler.activeNode.orientation \in {90, 270}
  /\ resizeHandler.startLength + 2 * AxisDelta(res.pos) < options.minNodeLength
  /\ NodeById(graph.nodes, res.id).length = options.minNodeLength

(***************************************************************************)
(* Claims about the Animator                                               *)
(***************************************************************************)
\* C9: at most one animation frame loop exists per Animator: after any sequence
\* of animateTo and cancel calls at most one frame callback is pending, and once
\* a new animateTo or cancel has been called no frame of an animation started
\* before that call is applied.
C9_OneFrameLoop ==
  /\ stack = <<>> => Cardinality(frameQueue) <= 1
  /\ res.op = "frame" => ~res.halted

\* cancel() or destroy() was the last call, made while an animation was running
Cancelled == res.op \in {"cancel", "destroy"} /\ res.wasAnimating

\* C10: after cancel() or destroy() is called while an animation is running no
\* frame callback remains pending, no further frame is applied, and the node
\* thickness and link path stay as the last applied frame left them.
C10_CancelFreezes ==
  /\ [](Cancelled => frameQueue = {})
  /\ [][(Cancelled /\ res'.op # "animateTo") => dom' = dom]_vars

\* ---------------------------------------------------------------------------
\* C11: when transitionDuration <= 0, animateTo cancels the frame registered
\* in animationId, writes the target thicknesses (floored at minNodeThickness)
\* and paths before it returns, requests no frame for this transition (so
\* isAnimating() is false on return and no frame of it is ever applied), and
\* its promise is resolved on return.
ImmediateCall ==
  Len(anims') > Len(anims) /\ transitionDuration <= 0

ImmediateReturn ==
  /\ animationId' = NullId
  /\ frameQueue' = {f \in frameQueue : f.id # animationId}
  /\ dom'.thickness = Max(res'.target.thickness, DefaultMinNodeThickness)
  /\ dom'.path = res'.target.path
  /\ anims'[Len(anims')].resolved
  /\ stack' = stack

C12_RawProgressBounded ==
  res.op = "frame" =>
    LET duration == anims[res.anim].duration
    IN /\ duration > 0
       /\ res.elapsed >= 0
       /\ res.rawT = (IF res.elapsed < duration THEN res.elapsed ELSE duration)
       /\ 0 <= res.rawT
       /\ res.rawT <= duration

C12_Witness ==
  /\ res.op = "frame"
  /\ res.elapsed > anims[res.anim].duration
  /\ res.rawT = anims[res.anim].duration

\* ---------------------------------------------------------------------------
\* C13: during a handle drag, a pointer move closer than 15px (along the edge
\* axis) to a sibling handle held by the gesture exchanges the two links'
\* order keys for that side on the live graph links, after the missing keys
\* of that node side were set to the links' positions in array order; nothing
\* else in the links changes, and getLayout() and the layout delivered with
\* the swap report the exchanged keys in linkOrders.
SwapStep == res.op = "linkMove" /\ res.swapped

\* the key a link has once the missing keys of the side are initialised
InitialisedKey(links, k, nodeId, side) ==
  IF OnNodeSide(links[k], nodeId, side) /\ OrderProp(links[k], side) = Undefined
  THEN Cardinality({j \in 1..(k - 1) : OnNodeSide(links[j], nodeId, side)})
  ELSE OrderProp(links[k], side)

OtherSide(side) == IF side = "source" THEN "target" ELSE "source"

KeysExchanged ==
  LET before == res.before
      after == graph.links
      a == IndexOfLink(before, res.a)
      b == IndexOfLink(before, res.b)
      Expected(k) == IF k = a THEN InitialisedKey(before, b, res.nodeId, res.side)
                     ELSE IF k = b THEN InitialisedKey(before, a, res.nodeId, res.side)
                     ELSE InitialisedKey(before, k, res.nodeId, res.side)
  IN /\ Len(after) = Len(before)
     /\ a # b
     /\ \A k \in 1..Len(before) :
          /\ OrderProp(after[k], res.side) = Expected(k)
          /\ OrderProp(after[k], OtherSide(res.side))
               = OrderProp(before[k], OtherSide(res.side))
          /\ after[k].id = before[k].id
          /\ after[k].source = before[k].source
          /\ after[k].target = before[k].target
          /\ after[k].value = before[k].value

LayoutReportsKeys ==
  LET layout == extractLayout(graph.nodes, graph.links) IN
  /\ emitted = layout
  /\ \A k \in 1..Len(graph.links) :
       (graph.links[k].sourceOrder # Undefined \/ graph.links[k].targetOrder # Undefined)
       => /\ layout.hasOrders
          /\ graph.links[k].id \in DOMAIN layout.linkOrders
          /\ layout.linkOrders[graph.links[k].id]
               = [sourceOrder |-> graph.links[k].sourceOrder,
                  targetOrder |-> graph.links[k].targetOrder]

\* a move that exchanged nothing had no sibling of the gesture within 15px
NoSiblingNear ==
  LET dragging == linkOrderHandler.dragging
      node == computedNodes[IndexOfNode(computedNodes, dragging.nodeId)]
      edge == EdgeSide(node.orientation, dragging.side)
      alongY == edge \in {"left", "right"}
  IN (/\ HasNode(computedNodes, dragging.nodeId)
      /\ HasLinkId(graph.links, dragging.linkId))
     => \A k \in 1..Len(linkOrderHandler.siblingHandles) :
          LET s == linkOrderHandler.siblingHandles[k]
              p == IF alongY THEN res.pos.y ELSE res.pos.x
              c == IF alongY THEN s.y ELSE s.x
          IN HasLinkId(graph.links, s.linkId)
             => (p * s.scale - c >= 15 * s.scale \/ c - p * s.scale >= 15 * s.scale)

EmittedByInteraction ==
  \/ res.op = "rotate"
  \/ res.op = "resizeUp"
  \/ res.op = "dragUp" /\ "onDragEnd" \in res.calls
  \/ res.op = "linkMove" /\ res.swapped

C14_EmittedLayoutIsLiveLayout ==
  EmittedByInteraction => emitted = extractLayout(graph.nodes, graph.links)

\* ---------------------------------------------------------------------------
\* C15: a click is not a drag.  A press on a node followed by its release
\* with no pointer movement in between changes no node's x or y, calls none
\* of onDragStart, onDrag, onDragEnd and emits no layoutChange; a release
\* emits a layout only if at least one movement occurred since the press.
DragPressStep == dragHandler.dragging = NullNode /\ dragHandler'.dragging # NullNode

DragReleaseStep == dragHandler.dragging # NullNode /\ dragHandler'.dragging = NullNode

SamePositions ==
  /\ Len(graph'.nodes) = Len(graph.nodes)
  /\ \A i \in 1..Len(graph.nodes) :
       graph'.nodes[i].x = graph.nodes[i].x /\ graph'.nodes[i].y = graph.nodes[i].y

C15_ClickIsNotDrag ==
  /\ [][DragPressStep =>
          (~dragHandler'.hasMoved /\ res'.calls = {} /\ SamePositions
           /\ emitted' = emitted)]_vars
  /\ [][(~dragHandler.hasMoved /\ dragHandler'.hasMoved) => res'.op = "dragMove"]_vars
  /\ [][DragReleaseStep =>
          /\ SamePositions
          /\ res'.calls \subseteq {"onDragEnd"}
          /\ ~dragHandler.hasMoved => (res'.calls = {} /\ emitted' = emitted)]_vars

C15_Witness ==
  /\ res.op = "dragUp"
  /\ res.calls = {}
  /\ emitted = NoLayout
  /\ steps = 2

\* ---------------------------------------------------------------------------
\* C16: for every node, orientation, side and offset f in [0, 1] the
\* attachment point lies on the physical edge of the table (0: in left, out
\* right; 90: in top, out bottom; 180: in right, out left; 270: in bottom,
\* out top) of the footprint centred at (x, y), whose width and height are
\* length and max(thickness, minNodeThickness), swapped for 90 and 270; it is
\* at edge start + extent * f along the edge, its direction is the unit
\* vector leaving the node through that edge, and at f = 1/2 it is the edge's
\* midpoint.
EdgeTable ==
  [o \in Orientations |->
     IF o = 0 THEN [in |-> "left", out |-> "right"]
     ELSE IF o = 90 THEN [in |-> "top", out |-> "bottom"]
     ELSE IF o = 180 THEN [in |-> "right", out |-> "left"]
     ELSE [in |-> "bottom", out |-> "top"]]

OutwardNormal ==
  [e \in {"left", "right", "top", "bottom"} |->
     IF e = "left" THEN <<-1, 0>> ELSE IF e = "right" THEN <<1, 0>>
     ELSE IF e = "top" THEN <<0, -1>> ELSE <<0, 1>>]

\* with W, H the footprint, s the scale and f = num / den: the point is the
\* centre moved by half the footprint along the outward normal, and along the
\* edge it is at (f - 1/2) of the extent from the centre
OnPhysicalEdge(node, side, offset, point) ==
  LET long == Coalesce(node.length, DefaultNodeLength)
      thick == IF node.thickness < DefaultMinNodeThickness
               THEN DefaultMinNodeThickness ELSE node.thickness
      upright == node.orientation \in {90, 270}
      W == IF upright THEN thick ELSE long
      H == IF upright THEN long ELSE thick
      edge == EdgeTable[node.orientation][side]
      n == OutwardNormal[edge]
      s == point.scale
      \* s * (f - 1/2) = 2 * num - den
      along == 2 * offset.num - offset.den
  IN /\ s = 2 * offset.den
     /\ point.dx = n[1] /\ point.dy = n[2]
     /\ IF n[2] = 0
        THEN /\ 2 * (point.x - s * node.x) = n[1] * s * W
             /\ point.y - s * node.y = along * H
        ELSE /\ 2 * (point.y - s * node.y) = n[2] * s * H
             /\ point.x - s * node.x = along * W

C16_AttachmentGeometry ==
  res.op = "getAttachmentPoint" =>
    /\ OnPhysicalEdge(inNodes[1], res.side, res.offset, res.point)
    /\ (res.side = "out" /\ inNodes[1].orientation = 0 /\ 2 * res.offset.num = res.offset.den)
       => /\ 2 * res.point.x
               = res.point.scale * (2 * inNodes[1].x
                                    + Coalesce(inNodes[1].length, DefaultNodeLength))
          /\ res.point.y = res.point.scale * inNodes[1].y

C16_Witness ==
  /\ res.op = "getAttachmentPoint"
  /\ inNodes[1].orientation = 180
  /\ res.side = "in"
  /\ res.offset.num = 1
  /\ res.point.edge = "right"
  /\ inNodes[1].thickness = 0

\* ---------------------------------------------------------------------------
\* C17: in every reachable state, for every node side that shows reorder
\* handles and every link on it, the handle is placed at the same fraction of
\* the same physical edge at which computeLinkPaths attaches the link's path.
PathAttachment(h) ==
  LET k == CHOOSE i \in 1..Len(computedLinks) : computedLinks[i].id = h.linkId
      node == computedNodes[IndexOfNode(computedNodes, h.nodeId)]
  IN IF h.side = "source"
     THEN [offset |-> computedLinks[k].sourceOffset,
           edge |-> AttachmentEdge(node.orientation, "out")]
     ELSE [offset |-> computedLinks[k].targetOffset,
           edge |-> AttachmentEdge(node.orientation, "in")]

C17_HandlesFollowPaths ==
  \A i \in 1..Len(Handles) :
    LET h == Handles[i]
        p == PathAttachment(h)
    IN /\ h.edge = p.edge
       /\ h.offset.num * p.offset.den = p.offset.num * h.offset.den

\* ---------------------------------------------------------------------------
\* C18: computeNodes gives every node incomingValue = the sum of the values
\* of the links that target it and outgoingValue = the sum of the values of
\* the links sourced at it (a self-loop counts in both), and the thickness,
\* before any floor, is max(incomingValue, outgoingValue) * valueScale; a
\* single link a -> b of value 10 with valueScale 1 gives both nodes
\* thickness 10.
C18_NodeValuesAndThickness ==
  res.op = "computeLinkPaths" =>
    /\ Len(res.nodes) = Len(inNodes)
    /\ \A i \in 1..Len(inNodes) :
         LET id == inNodes[i].id
             sumIn == SumOver({k \in 1..Len(inLinks) : inLinks[k].target = id}, inLinks)
             sumOut == SumOver({k \in 1..Len(inLinks) : inLinks[k].source = id}, inLinks)
         IN /\ res.nodes[i].id = id
            /\ res.nodes[i].incomingValue = sumIn
            /\ res.nodes[i].outgoingValue = sumOut
            /\ res.nodes[i].thickness
                 = (IF sumIn > sumOut THEN sumIn ELSE sumOut) * inOptions.valueScale
    /\ (Len(inLinks) = 1 /\ inLinks[1].value = 10 /\ inOptions.valueScale = 1)
       => \A i \in 1..Len(res.nodes) : res.nodes[i].thickness = 10

C18_Witness ==
  /\ res.op = "computeLinkPaths"
  /\ Len(inLinks) = 1
  /\ inLinks[1].value = 10
  /\ res.nodes[1].thickness = 10
  /\ res.nodes[2].thickness = 10

C18_WitnessSelfLoop ==
  /\ res.op = "computeLinkPaths"
  /\ \E k \in 1..Len(inLinks) : inLinks[k].source = "a" /\ inLinks[k].target = "a"
  /\ res.nodes[1].incomingValue = MaxValue + 1
  /\ res.nodes[1].outgoingValue = MaxValue

\* ---------------------------------------------------------------------------
\* C19 as stated: a node with exactly two outgoing links of values 6 and 4,
\* in that array order and without order keys, has them attached at the
\* offsets 0.3 and 0.9.
ScenarioB ==
  /\ res.op = "computeLinkPaths"
  /\ Len(inLinks) = 2
  /\ inLinks[1].value = 6 /\ inLinks[2].value = 4
  /\ inLinks[1].source = inLinks[2].source
  /\ \A k \in 1..2 : inLinks[k].sourceOrder = Undefined

\* the fraction num / den equals tenths / 10
IsTenths(offset, tenths) == offset.num * 10 = tenths * offset.den

C19_ScenarioBOffsets ==
  ScenarioB =>
    /\ IsTenths(res.paths.links[1].sourceOffset, 3)
    /\ IsTenths(res.paths.links[2].sourceOffset, 9)

\* C19 amended: the offsets are 0.3 and 0.8, the midpoints of the spans
\* [0, 0.6] and [0.6, 1].
C19_ScenarioBMidpoints ==
  ScenarioB =>
    /\ res.paths.ok
    /\ IsTenths(res.paths.links[1].sourceOffset, 3)
    /\ IsTenths(res.paths.links[2].sourceOffset, 8)

C19_Witness ==
  /\ ScenarioB
  /\ res.paths.links[2].sourceOffset = [num |-> 16, den |-> 20]

\* ---------------------------------------------------------------------------
\* C20: gaps in a layout are not errors.  applyLayout and applyLinkOrders
\* return a node or link that has no entry in the layout (or any link, when
\* the layout has no linkOrders) with all its attributes unchanged; an entry
\* without a length leaves the node's own length, a linkOrders entry without
\* one of the keys leaves the link's own key, and entries for ids that are
\* not in the graph are ignored.
NodeGapsKept ==
  /\ Len(res.nodes) = Len(inNodes)
  /\ \A i \in 1..Len(inNodes) :
       IF inNodes[i].id \in DOMAIN res.layout.nodes
       THEN LET entry == res.layout.nodes[inNodes[i].id] IN
            /\ res.nodes[i].id = inNodes[i].id
            /\ res.nodes[i].x = entry.x /\ res.nodes[i].y = entry.y
            /\ res.nodes[i].orientation = entry.orientation
            /\ res.nodes[i].length
                 = (IF entry.length = Undefined THEN inNodes[i].length ELSE entry.length)
       ELSE res.nodes[i] = inNodes[i]

LinkGapsKept ==
  /\ Len(res.links) = Len(inLinks)
  /\ \A i \in 1..Len(inLinks) :
       IF res.layout.hasOrders /\ inLinks[i].id \in DOMAIN res.layout.linkOrders
       THEN LET entry == res.layout.linkOrders[inLinks[i].id] IN
            /\ res.links[i].sourceOrder
                 = (IF entry.sourceOrder = Undefined THEN inLinks[i].sourceOrder
                    ELSE entry.sourceOrder)
            /\ res.links[i].targetOrder
                 = (IF entry.targetOrder = Undefined THEN inLinks[i].targetOrder
                    ELSE entry.targetOrder)
            /\ [res.links[i] EXCEPT !.sourceOrder = Undefined, !.targetOrder = Undefined]
                 = [inLinks[i] EXCEPT !.sourceOrder = Undefined, !.targetOrder = Undefined]
       ELSE res.links[i] = inLinks[i]

C20_LayoutGapsLeaveUnchanged ==
  res.op = "applyLayout" => (NodeGapsKept /\ LinkGapsKept)

(***************************************************************************)
(* SpecStale: computeLinkPaths on a computed-node collection that may lack *)
(* nodes the links name (a collection computed before the links changed).  *)
(***************************************************************************)
StaleEndpoints == (NodeIds \cup {UnknownId}) \X (NodeIds \cup {UnknownId})

StaleNodeLists ==
  { <<>>, <<MkNode("a", 0, 0, 0, Undefined)>>,
    <<MkNode("a", 0, 0, 0, Undefined), MkNode("b", 8, 0, 90, 30)>> }

InitStale ==
  /\ inNodes \in StaleNodeLists
  /\ \E k \in 0..MaxLinks :
       \E e \in [1..k -> StaleEndpoints], v \in [1..k -> 1..MaxValue] :
         inLinks = PathInputLinks(k, e, v, [i \in 1..k |-> Undefined],
                                  [i \in 1..k |-> Undefined])
  /\ inOptions = DefaultOptions
  /\ res = NoResult
  /\ InstanceIdle
  /\ AnimatorIdle
  /\ EmitterIdle
  /\ OwnersIdle

CallComputeLinkPathsStale ==
  /\ res.op = "none"
  /\ LET cn == computeNodes([nodes |-> inNodes, links |-> inLinks], inOptions) IN
     res' = [op |-> "computeLinkPathsStale",
             nodes |-> cn,
             paths |-> computeLinkPaths(cn, inLinks, inOptions)]
  /\ UNCHANGED <<pureVars, emitVars, ownVars, instVars, animVars>>

NextStale == CallComputeLinkPathsStale

SpecStale == InitStale /\ [][NextStale]_vars

\* ---------------------------------------------------------------------------
\* C21: computeLinkPaths throws, and returns no computed links, exactly when
\* some link's source or target id is absent from the computed nodes it is
\* given; when it returns, it returns one computed link per given link, in
\* the given order, none skipped and none attached to a node it does not name.
C21_StaleReferenceThrows ==
  res.op = "computeLinkPathsStale" =>
    LET stale == \E k \in 1..Len(inLinks) :
                   ~Resolves(inLinks[k].source, res.nodes)
                   \/ ~Resolves(inLinks[k].target, res.nodes)
    IN /\ stale <=> ~res.paths.ok
       /\ ~res.paths.ok => "links" \notin DOMAIN res.paths
       /\ res.paths.ok =>
            /\ Len(res.paths.links) = Len(inLinks)
            /\ \A k \in 1..Len(inLinks) :
                 /\ res.paths.links[k].id = inLinks[k].id
                 /\ res.paths.links[k].source = inLinks[k].source
                 /\ res.paths.links[k].target = inLinks[k].target

\* a link whose source resolves and whose target does not, next to a good link
C21_Witness ==
  /\ res.op = "computeLinkPathsStale"
  /\ ~res.paths.ok
  /\ Len(inLinks) = 2
  /\ Resolves(inLinks[1].source, res.nodes) /\ Resolves(inLinks[1].target, res.nodes)
  /\ Resolves(inLinks[2].source, res.nodes) /\ ~Resolves(inLinks[2].target, res.nodes)

(***************************************************************************)
(* SpecEmitter: interaction/EventEmitter.ts.  A callback is a function the *)
(* subscriber wrote: `once` tells whether its body calls the unsubscribe   *)
(* function that `on` returned for it.                                     *)
(***************************************************************************)
MaxSubs == 2

Events == {"layoutChange", "nodeClick"}

Callbacks == [name : {"f", "g"}, once : BOOLEAN]

\* this.listeners[event], [] standing for a missing entry
ListenersOf(ls, event) == IF event \in DOMAIN ls THEN ls[event] ELSE <<>>

\* callbacks.indexOf(callback), 0 for -1
IndexOfCallback(callbacks, callback) ==
  IF \E i \in 1..Len(callbacks) : callbacks[i] = callback
  THEN CHOOSE i \in 1..Len(callbacks) :
         callbacks[i] = callback /\ \A j \in 1..Len(callbacks) : callbacks[j] = callback => i <= j
  ELSE 0

\* callbacks.splice(index, 1)
Splice(callbacks, index) ==
  [i \in 1..(Len(callbacks) - 1) |-> IF i < index THEN callbacks[i] ELSE callbacks[i + 1]]

\* off(event, callback): the listeners afterwards
off(ls, event, callback) ==
  IF event \notin DOMAIN ls THEN ls
  ELSE LET index == IndexOfCallback(ls[event], callback) IN
       IF index > 0 THEN [ls EXCEPT ![event] = Splice(ls[event], index)] ELSE ls

RECURSIVE EmitLoop(_, _, _, _)
\* for (const callback of callbacks) callback(data): the array iterator reads
\* the live array at its own index, so a splice made by a callback shifts the
\* callbacks that follow under it
EmitLoop(ls, event, i, invoked) ==
  IF i > Len(ListenersOf(ls, event)) THEN [listeners |-> ls, invoked |-> invoked]
  ELSE LET callback == ls[event][i]
           after == IF callback.once THEN off(ls, event, callback) ELSE ls
       IN EmitLoop(after, event, i + 1, Append(invoked, callback))

InitEmitter ==
  /\ inNodes = <<>> /\ inLinks = <<>> /\ inOptions = DefaultOptions
  /\ res = NoResult
  /\ InstanceIdle
  /\ AnimatorIdle
  /\ listeners = EmptyMap
  /\ tokens = {}
  /\ OwnersIdle

On(event, callback) ==
  /\ Len(ListenersOf(listeners, event)) < MaxSubs
  /\ listeners' = Put(listeners, event, Append(ListenersOf(listeners, event), callback))
  /\ tokens' = tokens \cup {<<event, callback>>}
  /\ res' = [op |-> "on", event |-> event, callback |-> callback]
  /\ UNCHANGED <<pureVars, ownVars, instVars, animVars>>

\* the subscriber calls an unsubscribe function it holds, outside any emit
Unsubscribe(token) ==
  /\ token \in tokens
  /\ listeners' = off(listeners, token[1], token[2])
  /\ res' = [op |-> "off", event |-> token[1], callback |-> token[2],
             before |-> ListenersOf(listeners, token[1])]
  /\ UNCHANGED <<pureVars, ownVars, instVars, animVars, tokens>>

Emit(event) ==
  /\ LET r == EmitLoop(listeners, event, 1, <<>>) IN
     /\ listeners' = r.listeners
     /\ res' = [op |-> "emit", event |-> event,
                subscribed |-> ListenersOf(listeners, event),
                invoked |-> r.invoked]
  /\ UNCHANGED <<pureVars, ownVars, instVars, animVars, tokens>>

Clear ==
  /\ listeners' = EmptyMap
  /\ res' = [op |-> "clear"]
  /\ UNCHANGED <<pureVars, ownVars, instVars, animVars, tokens>>

NextEmitter ==
  \/ \E event \in Events, callback \in Callbacks : On(event, callback)
  \/ \E token \in Events \X Callbacks : Unsubscribe(token)
  \/ \E event \in Events : Emit(event)
  \/ Clear

SpecEmitter == InitEmitter /\ [][NextEmitter]_vars

\* ---------------------------------------------------------------------------
\* C22: emit(event, data) invokes, before it returns, every callback that is
\* subscribed to that event when emit is called, once per subscription and in
\* subscription order, and no callback of another event; a callback whose
\* unsubscribe function has been called is no longer subscribed.
C22_EmitDeliversToAll ==
  /\ res.op = "emit" => res.invoked = res.subscribed
  /\ res.op = "off" =>
       LET after == ListenersOf(listeners, res.event) IN
       IF \E i \in 1..Len(res.before) : res.before[i] = res.callback
       THEN \E i \in 1..Len(res.before) :
              res.before[i] = res.callback /\ after = Splice(res.before, i)
       ELSE after = res.before

(***************************************************************************)
(* SpecHost: the Animator driven by the instance that owns it.  The        *)
(* instance's direct re-render (a graph replacement, an option change or   *)
(* an interaction event that repaints without animating) cancels the       *)
(* animation in flight, then writes the node thickness and the link path.  *)
(***************************************************************************)
HostRender(state) ==
  /\ res' = [op |-> "render", state |-> state, wasAnimating |-> animationId # NullId]
  /\ animationId' = NullId
  /\ frameQueue' = CancelFrame(frameQueue, animationId)
  /\ anims' = HaltAll(anims)
  /\ dom' = [thickness |-> Max(state.thickness, DefaultMinNodeThickness),
             path |-> state.path]
  /\ UNCHANGED <<pureVars, emitVars, ownVars, instVars, transitionDuration, lastFrameId, now, stack>>

NextHost ==
  \/ NextAnim
  \/ \E state \in AnimTargets : HostRender(state)

SpecHost == InitAnim /\ [][NextHost]_vars

\* ---------------------------------------------------------------------------
\* C23: a transition in flight is the only writer of the animated attributes:
\* a direct re-render cancels it first, so that once the instance has written
\* the attributes itself no frame callback is left pending, and a frame never
\* writes the thickness or the path for an animation that a later re-render,
\* animateTo or cancel has superseded.
C23_SoleWriteAuthority ==
  /\ [](res.op = "render" => frameQueue = {})
  /\ [][(res'.op = "frame" /\ res' # res) => ~res'.halted]_vars

\* ---------------------------------------------------------------------------
\* C24: no stale references across a render boundary.  What a handler holds
\* during a gesture is what the gesture's next event reads and writes, so
\* after every recomputation the node a resize or a drag holds is a record of
\* the latest computed nodes (the resize reads its orientation), and the
\* sibling handles a link drag holds are the handles of the latest
\* recomputation (the drag reads their positions).
CurrentSiblings(data) ==
  SelectSeq(Handles, LAMBDA s : s.nodeId = data.nodeId /\ s.side = data.side
                                /\ s.linkId # data.linkId)

C24_NoStaleReferences ==
  /\ resizeHandler.activeNode # NullNode =>
       /\ HasNode(computedNodes, resizeHandler.activeNode.id)
       /\ resizeHandler.activeNode.orientation
            = NodeById(computedNodes, resizeHandler.activeNode.id).orientation
  /\ dragHandler.dragging # NullNode =>
       /\ HasNode(computedNodes, dragHandler.dragging.id)
       /\ dragHandler.dragging = NodeById(computedNodes, dragHandler.dragging.id)
  /\ linkOrderHandler.dragging # NullHandle =>
       linkOrderHandler.siblingHandles = CurrentSiblings(linkOrderHandler.dragging)

\* ---------------------------------------------------------------------------
\* C25: the computed view is the recomputation from the live graph after
\* every interaction event and every setLayout / setData / setOption: each
\* computed node has the graph node's x, y, orientation and length, each
\* computed link the graph link's value and order keys, and the value an
\* event wrote (the dragged position, the rotated orientation, the resized
\* length, the exchanged keys) is in the computed records that same event
\* produced.
ComputedIsRecomputation ==
  /\ computedNodes = computeNodes(graph, options)
  /\ computedLinks = computeLinkPaths(computedNodes, graph.links, options).links

ComputedMirrorsGraph ==
  /\ Len(computedNodes) = Len(graph.nodes)
  /\ \A i \in 1..Len(graph.nodes) :
       /\ computedNodes[i].id = graph.nodes[i].id
       /\ computedNodes[i].x = graph.nodes[i].x
       /\ computedNodes[i].y = graph.nodes[i].y
       /\ computedNodes[i].orientation = graph.nodes[i].orientation
       /\ computedNodes[i].length = graph.nodes[i].length
  /\ Len(computedLinks) = Len(graph.links)
  /\ \A k \in 1..Len(graph.links) :
       /\ computedLinks[k].id = graph.links[k].id
       /\ computedLinks[k].value = graph.links[k].value
       /\ computedLinks[k].sourceOrder = graph.links[k].sourceOrder
       /\ computedLinks[k].targetOrder = graph.links[k].targetOrder

EventVisibleInComputed ==
  /\ (res.op = "dragMove" /\ HasNode(graph.nodes, res.id)) =>
       /\ NodeById(computedNodes, res.id).x = dragHandler.dragging.x
       /\ NodeById(computedNodes, res.id).y = dragHandler.dragging.y
  /\ (res.op = "rotate" /\ HasNode(graph.nodes, res.id)) =>
       NodeById(computedNodes, res.id).orientation = NextInCycle(res.from)
  /\ (res.op = "resizeMove" /\ HasNode(graph.nodes, res.id)) =>
       NodeById(computedNodes, res.id).length
         = Max(options.minNodeLength, resizeHandler.startLength + 2 * AxisDelta(res.pos))
  /\ SwapStep =>
       LET a == IndexOfLink(res.before, res.a)
           b == IndexOfLink(res.before, res.b)
       IN /\ OrderProp(computedLinks[a], res.side)
               = InitialisedKey(res.before, b, res.nodeId, res.side)
          /\ OrderProp(computedLinks[b], res.side)
               = InitialisedKey(res.before, a, res.nodeId, res.side)

C25_ComputedViewConsistent ==
  /\ ComputedIsRecomputation
  /\ ComputedMirrorsGraph
  /\ EventVisibleInComputed

\* a drag move that changed the position, seen in the computed node
C25_Witness ==
  /\ res.op = "dragMove"
  /\ HasNode(graph.nodes, res.id)
  /\ NodeById(computedNodes, res.id).x = dragHandler.dragging.x
  /\ dragHandler.dragging.x # 0
  /\ dragHandler.dragOffset.x # 0

\* a swap whose exchanged keys are in the computed links
C25_WitnessSwap ==
  /\ SwapStep
  /\ OrderProp(computedLinks[IndexOfLink(res.before, res.a)], res.side)
       # OrderProp(res.before[IndexOfLink(res.before, res.a)], res.side)

\* ---------------------------------------------------------------------------
\* C26: a crossing swaps once.  When a move event of a handle drag has
\* exchanged the dragged link with sibling S, the next move event exchanges
\* the same pair again only if the pointer is within 15px of S's handle as
\* the recomputation that followed the first exchange re-created it.
NearCurrentHandle(linkId, nodeId, side, pos) ==
  LET node == NodeById(computedNodes, nodeId)
      edge == EdgeSide(node.orientation, side)
      alongY == edge \in {"left", "right"}
  IN \E h \in 1..Len(Handles) :
       /\ Handles[h].linkId = linkId
       /\ Handles[h].nodeId = nodeId
       /\ Handles[h].side = side
       /\ WithinThreshold(Handles[h], alongY, IF alongY THEN pos.y ELSE pos.x)

SwapsAgain ==
  /\ SwapStep
  /\ steps' # steps
  /\ res'.op = "linkMove"
  /\ res'.swapped
  /\ res'.a = res.a
  /\ res'.b = res.b

C26_CrossingSwapsOnce ==
  [][SwapsAgain => NearCurrentHandle(res.b, res.nodeId, res.side, res'.pos)]_vars

AnimFairness ==
  /\ WF_vars(AdvanceClock)
  /\ WF_vars(\E f \in frameQueue : Frame(f))
  /\ WF_vars(OnStartReturn)
  /\ WF_vars(OnEndReturn)

SpecAnimFair == SpecAnim /\ AnimFairness

\* ---------------------------------------------------------------------------
\* C28: an animation that no cancel() and no later animateTo stopped ends at
\* its target.  Each of its frames requests the next frame exactly while raw
\* progress is below 1; the frame with raw progress 1 writes the target
\* thickness and path, requests nothing, leaves isAnimating() false and
\* enters onEnd, once; and while the clock advances and requested frames are
\* run, that last frame comes and the promise is resolved.
FrameStep == res' # res /\ res'.op = "frame"

FramesOf(queue, n) == {f \in queue : f.anim = n}

FrameContinuesOrEnds ==
  FrameStep =>
    LET n == res'.anim
        a == anims[n]
    IN ~a.halted =>
         /\ res'.rawT = (IF res'.elapsed < a.duration THEN res'.elapsed ELSE a.duration)
         /\ res'.rawT < a.duration =>
              /\ Cardinality(FramesOf(frameQueue', n)) = 1
              /\ \A f \in FramesOf(frameQueue', n) : f.id = animationId' /\ f \notin frameQueue
              /\ stack' = stack
              /\ ~anims'[n].resolved
         /\ res'.rawT = a.duration =>
              /\ dom' = a.target
              /\ FramesOf(frameQueue', n) = {}
              /\ animationId' = NullId
              /\ ~a.resolved
              /\ stack' = Append(stack, [at |-> "onEnd", anim |-> n])

EndsOnce ==
  \A f \in frameQueue : ~anims[f.anim].resolved

\* the animation was started early enough for the model's clock to reach its end
RunsInTime(i) ==
  /\ i <= Len(anims)
  /\ anims[i].duration > 0
  /\ anims[i].startTime # Undefined
  /\ anims[i].startTime + anims[i].duration <= MaxTime

StoppedOrResolved(i) ==
  i <= Len(anims) /\ (anims[i].halted \/ anims[i].resolved)

C28_UncancelledAnimationEnds ==
  /\ [][FrameContinuesOrEnds]_vars
  /\ []EndsOnce
  /\ \A i \in 1..MaxAnims :
       [](RunsInTime(i) => <>StoppedOrResolved(i))

\* an animation that ran to its end unstopped: resolved, at its target
C28_Witness ==
  /\ res.op = "frame"
  /\ ~res.halted
  /\ res.rawT = anims[res.anim].duration
  /\ res.elapsed > anims[res.anim].duration
  /\ anims[res.anim].resolved
  /\ dom = anims[res.anim].target
  /\ animationId = NullId
  /\ frameQueue = {}

(***************************************************************************)
(* SpecSwap: LinkOrderHandler.swapLinkOrders on the links of one node      *)
(* side.  The links run from a to b, so they share the source side of a    *)
(* and the target side of b; each carries the keys it was given by the     *)
(* data or by a saved layout, or none, and the keys a side carries are     *)
(* pairwise distinct.                                                      *)
(***************************************************************************)
MaxSideLinks == 3

SideKeysDistinct(links, nodeId, side) ==
  \A i, j \in 1..Len(links) :
    (i # j /\ OnNodeSide(links[i], nodeId, side) /\ OnNodeSide(links[j], nodeId, side)
     /\ OrderProp(links[i], side) # Undefined)
    => OrderProp(links[i], side) # OrderProp(links[j], side)

SideKeysDefined(links, nodeId, side) ==
  \A i \in 1..Len(links) :
    OnNodeSide(links[i], nodeId, side) => OrderProp(links[i], side) # Undefined

InitSwap ==
  /\ inNodes = <<>>
  /\ inOptions = DefaultOptions
  /\ \E k \in 2..MaxSideLinks :
       \E so \in [1..k -> OrderKeys], to \in [1..k -> OrderKeys] :
         /\ inLinks = PathInputLinks(k, [i \in 1..k |-> <<"a", "b">>], [i \in 1..k |-> 1], so, to)
         /\ SideKeysDistinct(inLinks, "a", "source")
         /\ SideKeysDistinct(inLinks, "b", "target")
  /\ \E a, b \in 1..Len(inLinks), side \in {"source", "target"} :
       /\ a # b
       /\ res = [op |-> "args", a |-> inLinks[a].id, b |-> inLinks[b].id, side |-> side,
                 nodeId |-> IF side = "source" THEN "a" ELSE "b"]
  /\ InstanceIdle
  /\ AnimatorIdle
  /\ EmitterIdle
  /\ OwnersIdle

\* swapLinkOrders(linkIdA, linkIdB) while a handle of that node side is held
CallSwapLinkOrders ==
  /\ res.op = "args"
  /\ res' = [op |-> "swapLinkOrders", a |-> res.a, b |-> res.b, side |-> res.side,
             nodeId |-> res.nodeId,
             links |-> swapLinkOrders(inLinks, res.a, res.b, res.nodeId, res.side)]
  /\ UNCHANGED <<pureVars, emitVars, ownVars, instVars, animVars>>

NextSwap == CallSwapLinkOrders

SpecSwap == InitSwap /\ [][NextSwap]_vars

\* ---------------------------------------------------------------------------
\* C29: after a swap of the Link-Reorder machine, with the initialisation of
\* missing keys it performs first, every link of the affected node side has
\* an order key for that side and no two of them have the same key, also
\* when only some of the side's links carried a key before.
C29_OrderKeysStayDistinct ==
  res.op = "swapLinkOrders" =>
    /\ SideKeysDefined(res.links, res.nodeId, res.side)
    /\ SideKeysDistinct(res.links, res.nodeId, res.side)

\* ---------------------------------------------------------------------------
\* C30: each node-editing machine changes only its own attribute of its
\* target node.  A step of Drag changes at most the x and y of the dragged
\* node, a Rotate at most the orientation of the rotated node, a step of
\* Resize at most the length of the resized node; the node's other
\* attributes, every other node, every link with its value, endpoints and
\* order keys, and the sets of nodes and links are as before.
NodeEditOps == {"dragDown", "dragMove", "dragUp", "rotate", "resizeDown", "resizeMove", "resizeUp"}

NodeEditStep == steps' # steps /\ res'.op \in NodeEditOps

\* the node with the attribute of the machine set back to what it was
WithOwnAttributeOf(old, new, op) ==
  IF op = "dragMove" THEN [new EXCEPT !.x = old.x, !.y = old.y]
  ELSE IF op = "rotate" THEN [new EXCEPT !.orientation = old.orientation]
  ELSE IF op = "resizeMove" THEN [new EXCEPT !.length = old.length]
  ELSE new

OnlyOwnAttributeChanges ==
  NodeEditStep =>
    /\ graph'.links = graph.links
    /\ Len(graph'.nodes) = Len(graph.nodes)
    /\ \A k \in 1..Len(graph.nodes) :
         IF graph.nodes[k].id = res'.id
         THEN WithOwnAttributeOf(graph.nodes[k], graph'.nodes[k], res'.op) = graph.nodes[k]
         ELSE graph'.nodes[k] = graph.nodes[k]

C30_OnlyOwnAttributeChanges == [][OnlyOwnAttributeChanges]_vars

\* a resize has given its node a new length, beside another node and links
C30_Witness ==
  /\ res.op = "resizeMove"
  /\ Len(graph.nodes) = 2
  /\ Len(graph.links) = 2
  /\ \E k \in 1..Len(graph.nodes) :
       /\ graph.nodes[k].id = res.id
       /\ graph.nodes[k].length \notin {Undefined, 11}

\* ---------------------------------------------------------------------------
\* C31: while a node is dragged, after every pointer move the graph node's
\* (x, y) is the pointer position minus the grab offset, and the grab offset
\* is fixed at the press: it is the pointer position at the press minus the
\* node's position at the press, and nothing changes it until the release.
\* So the position depends on the press and on the latest pointer position
\* only, whatever was moved or rendered in between.
DragHeld == dragHandler.dragging # NullNode

OffsetTakenAtPress ==
  (steps' # steps /\ res'.op = "dragDown") =>
    LET node == NodeById(graph.nodes, res'.id)
    IN /\ HasNode(graph.nodes, res'.id)
       /\ dragHandler'.dragOffset = [x |-> res'.pos.x - node.x, y |-> res'.pos.y - node.y]

OffsetFixedWhileHeld ==
  (DragHeld /\ dragHandler'.dragging # NullNode) =>
    dragHandler'.dragOffset = dragHandler.dragOffset

PositionFollowsPointer ==
  (steps' # steps /\ res'.op = "dragMove" /\ HasNode(graph'.nodes, res'.id)) =>
    LET node == NodeById(graph'.nodes, res'.id)
    IN /\ node.x = res'.pos.x - dragHandler.dragOffset.x
       /\ node.y = res'.pos.y - dragHandler.dragOffset.y

C31_DragPosition ==
  /\ [][OffsetTakenAtPress]_vars
  /\ [][OffsetFixedWhileHeld]_vars
  /\ [][PositionFollowsPointer]_vars

\* a second move of a node grabbed off its centre, the pointer away from the press
C31_Witness ==
  /\ res.op = "dragMove"
  /\ steps >= 3
  /\ dragHandler.dragOffset.x # 0
  /\ res.pos # [x |-> 0, y |-> 0]
  /\ HasNode(graph.nodes, res.id)
  /\ NodeById(graph.nodes, res.id).x = res.pos.x - dragHandler.dragOffset.x
  /\ NodeById(graph.nodes, res.id).y = res.pos.y - dragHandler.dragOffset.y

\* ---------------------------------------------------------------------------
\* C32: while a node is resized, every pointer move sets its length to
\* max(minNodeLength, startLength + 2 * d): startLength is the node's length
\* at the press (or the default nodeLength), d is the displacement of the
\* pointer since the press along the node's length axis (x at 0 and 180, y at
\* 90 and 270), positive when the held end moves away from the centre (the
\* end handle towards larger coordinates, the start handle towards smaller
\* ones), the same for both handles and the four orientations.
ResizeHeld == resizeHandler.activeNode # NullNode

PressTakesStart ==
  (steps' # steps /\ res'.op = "resizeDown") =>
    LET node == NodeById(graph.nodes, res'.id)
    IN /\ HasNode(graph.nodes, res'.id)
       /\ resizeHandler'.startLength =
            (IF node.length = Undefined THEN options.nodeLength ELSE node.length)
       /\ resizeHandler'.startPos = res'.pos

StartFixedWhileHeld ==
  (ResizeHeld /\ resizeHandler'.activeNode # NullNode) =>
    /\ resizeHandler'.startLength = resizeHandler.startLength
    /\ resizeHandler'.startPos = resizeHandler.startPos
    /\ resizeHandler'.activeHandleSide = resizeHandler.activeHandleSide

\* the displacement along the length axis of a node of this orientation
OutwardDisplacement(orientation, side, from, to) ==
  LET along == IF orientation \in {0, 180} THEN to.x - from.x ELSE to.y - from.y
  IN IF side = "end" THEN along ELSE 0 - along

LengthFollowsPointer ==
  (steps' # steps /\ res'.op = "resizeMove" /\ HasNode(graph'.nodes, res'.id)) =>
    LET node == NodeById(graph'.nodes, res'.id)
        d == OutwardDisplacement(node.orientation, resizeHandler.activeHandleSide,
                                 resizeHandler.startPos, res'.pos)
        wanted == resizeHandler.startLength + 2 * d
    IN node.length = (IF wanted < options.minNodeLength THEN options.minNodeLength ELSE wanted)

C32_ResizeDelta ==
  /\ [][PressTakesStart]_vars
  /\ [][StartFixedWhileHeld]_vars
  /\ [][LengthFollowsPointer]_vars

(***************************************************************************)
(* SpecLinkFrame: Animator.buildLinkInterpolators and applyLinkFrame for   *)
(* one target link.  A path string is the sequence of its tokens: a        *)
(* command letter [c |-> "M", n |-> 0] or a number [c |-> "", n |-> 16].   *)
(* The start snapshot is what captureState read from the DOM (no entry     *)
(* when the link had no element or no `d`), the end path is what           *)
(* computeLinkPaths built; both generators write M, C, L, Q and Z only.    *)
(***************************************************************************)
PathArgs == {0, 16}

Cmd(c) == [c |-> c, n |-> 0]

Num(n) == [c |-> "", n |-> n]

\* the ribbon of generateLinkPath, the outline of the constant width style,
\* and a shorter outline; one number stands for the arguments of a command
LinkPathStrings ==
  {<<Cmd("M"), Num(a), Cmd("C"), Num(b), Cmd("L"), Num(a), Cmd("C"), Num(b), Cmd("Z")>> :
      a \in PathArgs, b \in PathArgs}
  \cup {<<Cmd("M"), Num(a), Cmd("L"), Num(b), Cmd("Q"), Num(b), Cmd("L"), Num(a), Cmd("Z")>> :
      a \in PathArgs, b \in PathArgs}
  \cup {<<Cmd("M"), Num(a), Cmd("L"), Num(b), Cmd("L"), Num(b), Cmd("Z")>> :
      a \in PathArgs, b \in PathArgs}

\* startState.links.get(link.id): an entry with a path, or none
NoSnapshot == [has |-> FALSE, path |-> <<>>]

Snapshots == {NoSnapshot} \cup {[has |-> TRUE, path |-> p] : p \in LinkPathStrings}

\* p.match(/[MLCQAZHVS]/gi): the letters the pattern counts
CountedLetters == {"M", "L", "C", "Q", "A", "Z", "H", "V", "S"}

countCommands(p) == Cardinality({i \in 1..Len(p) : p[i].c \in CountedLetters})

arePathsCompatibleAlways(pathA, pathB) == TRUE

\* arePathsCompatible
arePathsCompatible(pathA, pathB) == countCommands(pathA) = countCommands(pathB)

\* the position among the numbers of p of the token at index i
NumberIndex(p, i) == Cardinality({j \in 1..i : p[j].c = ""})

\* the index in p of its k-th number
NthNumber(p, k) == CHOOSE i \in 1..Len(p) : p[i].c = "" /\ NumberIndex(p, i) = k

NumberCount(p) == Cardinality({i \in 1..Len(p) : p[i].c = ""})

\* d3 interpolate(a, b)(t) on two strings: the text of b, each of its numbers
\* running from the number at the same position in a, if a has one
InterpolateString(a, b, t) ==
  [i \in 1..Len(b) |->
     IF b[i].c = "" /\ NumberIndex(b, i) <= NumberCount(a)
     THEN Num(InterpolateNumber(a[NthNumber(a, NumberIndex(b, i))].n, b[i].n, t))
     ELSE b[i]]

\* buildLinkInterpolators, for one link: which interpolator the map holds
buildLinkInterpolator(start, endPath) ==
  IF start.has /\ start.path # <<>> /\ arePathsCompatible(start.path, endPath)
  THEN [kind |-> "interpolate", from |-> start.path, to |-> endPath]
  ELSE [kind |-> "snap", from |-> endPath, to |-> endPath]

\* interp(t)
CallInterpolator(interp, t) ==
  IF interp.kind = "interpolate" THEN InterpolateString(interp.from, interp.to, t)
  ELSE interp.to

InitLinkFrame ==
  /\ inNodes = <<>> /\ inLinks = <<>> /\ inOptions = DefaultOptions
  /\ \E start \in Snapshots, endPath \in LinkPathStrings, duration \in 1..MaxDuration :
       res = [op |-> "animateTo", start |-> start, endPath |-> endPath,
              duration |-> duration,
              interp |-> buildLinkInterpolator(start, endPath)]
  /\ InstanceIdle
  /\ AnimatorIdle
  /\ EmitterIdle
  /\ OwnersIdle

\* one tick at `elapsed` after the start: applyLinkFrame writes interp(t) to `d`
ApplyLinkFrame(elapsed) ==
  /\ res.op \in {"animateTo", "linkFrame"}
  /\ res.op = "linkFrame" => (res.elapsed < elapsed /\ res.elapsed < res.duration)
  /\ LET rawT == RawProgress(elapsed, res.duration)
         t == Easing(rawT, res.duration)
     IN res' = [op |-> "linkFrame", start |-> res.start, endPath |-> res.endPath,
                duration |-> res.duration, interp |-> res.interp,
                elapsed |-> elapsed, first |-> res.op = "animateTo", t |-> t,
                d |-> CallInterpolator(res.interp, t)]
  /\ UNCHANGED <<pureVars, emitVars, ownVars, instVars, animVars>>

NextLinkFrame == \E elapsed \in 0..(MaxDuration + 1) : ApplyLinkFrame(elapsed)

SpecLinkFrame == InitLinkFrame /\ [][NextLinkFrame]_vars

\* ---------------------------------------------------------------------------
\* C33: for a target link whose id has a path in the start snapshot with as
\* many path commands as the end path, every frame sets the link's path to
\* the interpolation of the two at the eased progress; for a link without a
\* start path, or with a different number of commands, every frame, the
\* first included, sets the path to exactly the end path.
PathCommands(p) == {i \in 1..Len(p) : p[i].c # ""}

SameCommandCount(a, b) == Cardinality(PathCommands(a)) = Cardinality(PathCommands(b))

C33_PathInterpolationRule ==
  res.op = "linkFrame" =>
    IF res.start.has /\ SameCommandCount(res.start.path, res.endPath)
    THEN res.d = InterpolateString(res.start.path, res.endPath, res.t)
    ELSE res.d = res.endPath

\* a frame half way between two different paths of the same command count
C33_Witness ==
  /\ res.op = "linkFrame"
  /\ res.start.has
  /\ SameCommandCount(res.start.path, res.endPath)
  /\ res.d # res.endPath
  /\ res.d # res.start.path
  /\ 0 < res.elapsed /\ res.elapsed < res.duration

\* a first frame that snaps: the start path has another number of commands
C33_WitnessSnap ==
  /\ res.op = "linkFrame"
  /\ res.first
  /\ res.elapsed = 0
  /\ res.start.has
  /\ ~SameCommandCount(res.start.path, res.endPath)
  /\ res.d = res.endPath

\* ---------------------------------------------------------------------------
\* C34: a link-order swap touches only order keys of the dragged node side.
\* It exchanges the two links' keys for that side and may give a key to the
\* links of that node side that had none; it changes no link's key for the
\* other side, no key of a link that is not attached to that node side, no
\* link's value, source or target and no node attribute, and the keys the
\* side has after the initialisation are the keys it has after the exchange.
SwapActs == steps' # steps /\ res'.op = "linkMove" /\ res'.swapped

\* the order keys of the links of a node side, with their multiplicities
SideKeyBag(links, nodeId, side) ==
  LET on == {k \in 1..Len(links) : OnNodeSide(links[k], nodeId, side)}
      keys == {OrderProp(links[k], side) : k \in on}
  IN [key \in keys |-> Cardinality({k \in on : OrderProp(links[k], side) = key})]

SwapFrame ==
  SwapActs =>
    LET before == graph.links
        after == graph'.links
        nodeId == res'.nodeId
        side == res'.side
    IN /\ graph'.nodes = graph.nodes
       /\ Len(after) = Len(before)
       /\ \A k \in 1..Len(before) :
            /\ after[k].id = before[k].id
            /\ after[k].value = before[k].value
            /\ after[k].source = before[k].source
            /\ after[k].target = before[k].target
            /\ OrderProp(after[k], OtherSide(side)) = OrderProp(before[k], OtherSide(side))
            /\ ~OnNodeSide(before[k], nodeId, side) => after[k] = before[k]
       /\ SideKeyBag(after, nodeId, side)
            = SideKeyBag(ensureOrdersInitialized(before, nodeId, side), nodeId, side)

C34_SwapTouchesOnlySideKeys == [][SwapFrame]_vars

\* ---------------------------------------------------------------------------
\* C35: isAnimating() tells the truth.  In every state between two events,
\* the states inside onStart and onEnd included, isAnimating() is true
\* exactly when a frame callback of this Animator is pending; it is false
\* before any animateTo, after the last frame, after cancel() and destroy(),
\* and after an animateTo with duration <= 0.
isAnimating == animationId # NullId

FramePending == frameQueue # {}

FalseAfterStop ==
  (res' # res /\ res'.op \in {"cancel", "destroy"}) => animationId' = NullId

FalseAfterImmediate ==
  (res' # res /\ res'.op = "animateTo" /\ anims'[res'.anim].duration <= 0)
    => animationId' = NullId

C35_IsAnimatingTellsTruth ==
  /\ [](isAnimating <=> FramePending)
  /\ [][FalseAfterStop]_vars
  /\ [][FalseAfterImmediate]_vars

\* ---------------------------------------------------------------------------
\* C36: gestures are mutually exclusive.  With one pointer, at most one of
\* the Drag, Resize and Link-Reorder machines is active at any time; the
\* press of a resize handle or of a link handle does not start a drag of the
\* node, and a pointer move during a resize or a reorder changes no node's x
\* or y.
LinkHeld == linkOrderHandler.dragging # NullHandle

ActiveMachines ==
  {m \in {"drag", "resize", "link"} :
     \/ m = "drag" /\ DragHeld
     \/ m = "resize" /\ ResizeHeld
     \/ m = "link" /\ LinkHeld}

HandlePressStartsNoDrag ==
  (steps' # steps /\ res'.op \in {"resizeDown", "linkDown"}) =>
    /\ dragHandler'.dragging = NullNode
    /\ dragHandler' = dragHandler

MoveKeepsPositions ==
  (steps' # steps /\ (ResizeHeld \/ LinkHeld)
   /\ res'.op \in {"dragMove", "resizeMove", "linkMove"}) => SamePositions

C36_GesturesExclusive ==
  /\ [](Cardinality(ActiveMachines) <= 1)
  /\ [][HandlePressStartsNoDrag]_vars
  /\ [][MoveKeepsPositions]_vars

\* a resize under way, its node grown, and no drag beside it
C36_Witness ==
  /\ res.op = "resizeMove"
  /\ ActiveMachines = {"resize"}
  /\ HasNode(graph.nodes, res.id)
  /\ NodeById(graph.nodes, res.id).length = resizeHandler.startLength + 2

\* ---------------------------------------------------------------------------
\* C37: a failed graph replacement changes nothing.  When setData is called
\* with nodes or links that fail the validation of createGraph (a duplicate
\* node id, a link naming a node that is not there), the call raises, and
\* the graph, the computed nodes and links and the result of getLayout() are
\* what they were before the call, and no layoutChange is emitted.  setLayout
\* replaces the graph by its own nodes and links and cannot fail that way.
getLayout == extractLayout(graph.nodes, graph.links)

FailedReplacement == steps' # steps /\ res'.op = "setData" /\ ~res'.ok

FailedReplacementKeepsAll ==
  FailedReplacement =>
    /\ graph' = graph
    /\ computedNodes' = computedNodes
    /\ computedLinks' = computedLinks
    /\ getLayout' = getLayout
    /\ emitted' = emitted
    /\ ~createGraph(applyLayout(res'.newNodes, getLayout),
                    applyLinkOrders(res'.newLinks, getLayout)).ok

SetLayoutCannotFail ==
  \A layout \in LayoutChoices :
    createGraph(applyLayout(graph.nodes, layout), applyLinkOrders(graph.links, layout)).ok

C37_FailedReplacementChangesNothing ==
  /\ [][FailedReplacementKeepsAll]_vars
  /\ []SetLayoutCannotFail


\* a setData with a dangling link, refused after an edit had been emitted
C37_Witness ==
  /\ res.op = "setData"
  /\ ~res.ok
  /\ \E k \in 1..Len(res.newLinks) : res.newLinks[k].target = UnknownId
  /\ Len(graph.links) = 2
  /\ emitted # NoLayout

\* ---------------------------------------------------------------------------
\* C38: unsubscribing during delivery skips nobody else.  When a callback
\* unsubscribes itself (or another subscriber of the event) while emit is
\* delivering, every other callback that was subscribed when the emit began
\* and has not itself been unsubscribed is still invoked, exactly once.
Occurrences(seq, x) == Cardinality({i \in 1..Len(seq) : seq[i] = x})

C38_UnsubscribeSkipsNobody ==
  res.op = "emit" =>
    \A i \in 1..Len(res.subscribed) :
      LET c == res.subscribed[i]
      IN Occurrences(ListenersOf(listeners, res.event), c) = Occurrences(res.subscribed, c)
           => Occurrences(res.invoked, c) = Occurrences(res.subscribed, c)

(***************************************************************************)
(* SpecOwners: several diagram instances made from the same arrays of the  *)
(* caller.  Objects are kept in a heap and arrays hold references, so that *)
(* `{...node}` (a new object) and `return node` (the same object) differ.  *)
(* The handlers' gestures are those of Spec; here an edit is the write its *)
(* callback makes to the graph of its instance.                            *)
(***************************************************************************)
MaxInstances == 2
MaxEdits == 2

Refs(seq) == {seq[k] : k \in 1..Len(seq)}

Deref(objects, refs) == [k \in 1..Len(refs) |-> objects[refs[k]]]

\* nodes.map / links.map with a function that returns a new object for the
\* elements of `renewed` and the element itself for the others: the references
\* of the result, the new objects being appended to `objects`
MapRefs(objects, refs, renewed) ==
  [k \in 1..Len(refs) |->
     IF k \in renewed
     THEN Len(objects) + Cardinality({j \in renewed : j <= k})
     ELSE refs[k]]

\* the objects after the map: `values` are the mapped records
MapObjects(objects, values, renewed) ==
  [r \in 1..(Len(objects) + Cardinality(renewed)) |->
     IF r <= Len(objects) THEN objects[r]
     ELSE values[CHOOSE k \in renewed : Cardinality({j \in renewed : j <= k}) = r - Len(objects)]]

\* applyLayout returns {...node, x, y, ...} for a node the layout names
RenewedNodes(nodes, layout) ==
  {k \in 1..Len(nodes) : HasProperty(layout.nodes, nodes[k].id)}

\* applyLinkOrders returns the array itself without linkOrders, and {...link}
\* for a link the layout names
RenewedLinks(links, layout) ==
  IF ~layout.hasOrders THEN {}
  ELSE {k \in 1..Len(links) : HasProperty(layout.linkOrders, links[k].id)}

\* the heap and the references after applyLayout and applyLinkOrders on arrays
ApplyToArrays(nodeRefs, linkRefs, layout) ==
  LET nodes == Deref(heap.nodes, nodeRefs)
      links == Deref(heap.links, linkRefs)
      rn == RenewedNodes(nodes, layout)
      rl == RenewedLinks(links, layout)
  IN [heap |-> [nodes |-> MapObjects(heap.nodes, applyLayout(nodes, layout), rn),
                links |-> MapObjects(heap.links, applyLinkOrders(links, layout), rl)],
      nodes |-> MapRefs(heap.nodes, nodeRefs, rn),
      links |-> MapRefs(heap.links, linkRefs, rl)]

OwnerLayouts == {NoLayout} \cup LayoutChoices

InitOwners ==
  /\ inNodes = <<>> /\ inLinks = <<>> /\ inOptions = DefaultOptions
  /\ res = NoResult
  /\ \E nodes \in DataNodeLists, links \in DataLinkLists :
       /\ Len(nodes) = 2
       /\ Len(links) = 2
       /\ createGraph(nodes, links).ok
       /\ heap = [nodes |-> nodes, links |-> links]
       /\ passed = [nodes |-> <<1, 2>>, links |-> <<1, 2>>]
  /\ instances = <<>>
  /\ InstanceIdle
  /\ AnimatorIdle
  /\ EmitterIdle

\* createSankey({nodes, links, layout}): config.layout may be absent
CreateSankey(layout) ==
  /\ Len(instances) < MaxInstances
  /\ LET applied == IF layout = NoLayout
                    THEN [heap |-> heap, nodes |-> passed.nodes, links |-> passed.links]
                    ELSE ApplyToArrays(passed.nodes, passed.links, layout)
     IN /\ createGraph(Deref(applied.heap.nodes, applied.nodes),
                       Deref(applied.heap.links, applied.links)).ok
        /\ heap' = applied.heap
        /\ instances' = Append(instances, [nodes |-> applied.nodes, links |-> applied.links,
                                           edits |-> 0])
        /\ res' = [op |-> "createSankey", instance |-> Len(instances) + 1]
  /\ UNCHANGED <<pureVars, emitVars, instVars, animVars, passed>>

Editable(i) == i \in 1..Len(instances) /\ instances[i].edits < MaxEdits

Edited(i) == [instances EXCEPT ![i].edits = @ + 1]

\* graph.nodes.find(n => n.id === id): the reference of the node found
FindNodeRef(i, id) ==
  LET refs == instances[i].nodes
      k == CHOOSE k \in 1..Len(refs) :
             /\ heap.nodes[refs[k]].id = id
             /\ \A j \in 1..(k - 1) : heap.nodes[refs[j]].id # id
  IN refs[k]

HasNodeRef(i, id) == \E r \in Refs(instances[i].nodes) : heap.nodes[r].id = id

\* onDrag of instance i
OnDrag(i, id, pos) ==
  /\ Editable(i)
  /\ HasNodeRef(i, id)
  /\ heap' = [heap EXCEPT !.nodes[FindNodeRef(i, id)].x = pos.x,
                          !.nodes[FindNodeRef(i, id)].y = pos.y]
  /\ instances' = Edited(i)
  /\ res' = [op |-> "onDrag", instance |-> i, id |-> id]
  /\ UNCHANGED <<pureVars, emitVars, instVars, animVars, passed>>

\* onRotate of instance i
OnRotate(i, id) ==
  /\ Editable(i)
  /\ HasNodeRef(i, id)
  /\ heap' = [heap EXCEPT !.nodes[FindNodeRef(i, id)].orientation = RotateOrientation(@)]
  /\ instances' = Edited(i)
  /\ res' = [op |-> "onRotate", instance |-> i, id |-> id]
  /\ UNCHANGED <<pureVars, emitVars, instVars, animVars, passed>>

\* onResize of instance i
OnResize(i, id, newLength) ==
  /\ Editable(i)
  /\ HasNodeRef(i, id)
  /\ heap' = [heap EXCEPT !.nodes[FindNodeRef(i, id)].length = newLength]
  /\ instances' = Edited(i)
  /\ res' = [op |-> "onResize", instance |-> i, id |-> id]
  /\ UNCHANGED <<pureVars, emitVars, instVars, animVars, passed>>

\* swapLinkOrders of the LinkOrderHandler of instance i, whose this.links is
\* the graph's link array
OnLinkSwap(i, a, b, nodeId, side) ==
  /\ Editable(i)
  /\ a # b
  /\ LET refs == instances[i].links
         links == Deref(heap.links, refs)
     IN /\ HasLinkId(links, a) /\ HasLinkId(links, b)
        /\ OnNodeSide(links[IndexOfLink(links, a)], nodeId, side)
        /\ OnNodeSide(links[IndexOfLink(links, b)], nodeId, side)
        /\ LET swapped == swapLinkOrders(links, a, b, nodeId, side) IN
           heap' = [heap EXCEPT !.links =
                      [r \in 1..Len(heap.links) |->
                         IF r \in Refs(refs)
                         THEN swapped[CHOOSE k \in 1..Len(refs) : refs[k] = r]
                         ELSE heap.links[r]]]
  /\ instances' = Edited(i)
  /\ res' = [op |-> "onLinkSwap", instance |-> i, id |-> a]
  /\ UNCHANGED <<pureVars, emitVars, instVars, animVars, passed>>

\* setData(nodes, links) of instance i with the caller's arrays
OwnerSetData(i) ==
  /\ Editable(i)
  /\ LET currentLayout == extractLayout(Deref(heap.nodes, instances[i].nodes),
                                        Deref(heap.links, instances[i].links))
         applied == ApplyToArrays(passed.nodes, passed.links, currentLayout)
     IN /\ createGraph(Deref(applied.heap.nodes, applied.nodes),
                       Deref(applied.heap.links, applied.links)).ok
        /\ heap' = applied.heap
        /\ instances' = [instances EXCEPT ![i] = [nodes |-> applied.nodes,
                                                   links |-> applied.links,
                                                   edits |-> @.edits + 1]]
        /\ res' = [op |-> "setData", instance |-> i]
  /\ UNCHANGED <<pureVars, emitVars, instVars, animVars, passed>>

NextOwners ==
  \/ \E layout \in OwnerLayouts : CreateSankey(layout)
  \/ \E i \in 1..MaxInstances, id \in NodeIds :
       OnDrag(i, id, [x |-> MaxCoord + 1, y |-> MaxCoord + 1])
  \/ \E i \in 1..MaxInstances, id \in NodeIds : OnRotate(i, id)
  \/ \E i \in 1..MaxInstances, id \in NodeIds : OnResize(i, id, DefaultNodeLength + 2)
  \/ \E i \in 1..MaxInstances, a \in LinkIds, b \in LinkIds, nodeId \in NodeIds,
        side \in {"source", "target"} : OnLinkSwap(i, a, b, nodeId, side)
  \/ \E i \in 1..MaxInstances : OwnerSetData(i)

SpecOwners == InitOwners /\ [][NextOwners]_vars

\* ---------------------------------------------------------------------------
\* C39: the live graph is owned by one instance only.  A drag, rotate, resize
\* or link-reorder edit made through one instance changes no node or link
\* record held by another instance and no node or link object of the arrays
\* the caller passed to createSankey or setData, also when two instances were
\* created from the same arrays without a layout.
OwnerEditOps == {"onDrag", "onRotate", "onResize", "onLinkSwap"}

ChangedNodes == {r \in 1..Len(heap.nodes) : heap'.nodes[r] # heap.nodes[r]}

ChangedLinks == {r \in 1..Len(heap.links) : heap'.links[r] # heap.links[r]}

EditStaysInside ==
  (res' # res /\ res'.op \in OwnerEditOps) =>
    /\ ChangedNodes \cap Refs(passed.nodes) = {}
    /\ ChangedLinks \cap Refs(passed.links) = {}
    /\ \A j \in 1..Len(instances) :
         j # res'.instance =>
           /\ ChangedNodes \cap Refs(instances[j].nodes) = {}
           /\ ChangedLinks \cap Refs(instances[j].links) = {}

C39_GraphOwnedByOneInstance == [][EditStaysInside]_vars

\* ---------------------------------------------------------------------------
\* C40: ribbons fill their spans.  On every node side with total value T > 0
\* the thickness of each link at that endpoint (value * valueScale) equals the
\* length on the node edge of the span allotted to it, value / T of the edge
\* extent max(node thickness, minNodeThickness), so that neighbouring ribbons
\* abut with no gap and no overlap; also at nodes whose incoming and outgoing
\* totals differ and at nodes thinner than minNodeThickness.
\* the extent of the edge the links of node i are stacked on
EdgeExtent(i) ==
  IF res.nodes[i].orientation = 0 \/ res.nodes[i].orientation = 180
  THEN res.footprints[i].height
  ELSE res.footprints[i].width

\* thickness = value / T * extent, multiplied by T
RibbonFillsSpan(i, side) ==
  LET T == SideTotal(inLinks, inNodes[i].id, side) IN
  T > 0 =>
    \A k \in SideLinks(inNodes[i].id, side) :
      res.paths.links[k].thickness * T = inLinks[k].value * EdgeExtent(i)

C40_RibbonsFillSpans ==
  (res.op = "computeLinkPaths" /\ res.paths.ok) =>
    \A i \in 1..Len(inNodes) : RibbonFillsSpan(i, "out") /\ RibbonFillsSpan(i, "in")

====
